---- MODULE Spec2Model ----
(***************************************************************************)
(* The enrollment / progress / path-aggregation logic of the LMS backend.  *)
(*                                                                         *)
(* The document store is modelled by its collections (users, courses,      *)
(* assignments, paths, progress, pathEnrollments).  Every route handler is *)
(* cut at its awaits: each store call is atomic, the code between two      *)
(* awaits runs without interruption (one JavaScript thread), and several   *)
(* requests may be between awaits at the same time (one slot of reqs per   *)
(* request being handled).                                                 *)
(*                                                                         *)
(* Document.save() is modelled by what the object-document mapper sends    *)
(* to the store for the change the handler made: an array push is sent as  *)
(* an atomic $push of the pushed elements onto the stored array (not as a  *)
(* rewrite of the whole document), so a save adds to whatever the stored   *)
(* array holds at that moment.                                             *)
(***************************************************************************)
EXTENDS Integers, Sequences, FiniteSets, TLC

\* ------------------------------------------------------------------ bounds

\* Requests that may be between two awaits at the same time.
MaxInflight == 2
\* Submissions one Progress record may come to hold.
MaxSubs == 2
\* Questions of a drawn MCQ assignment, and entries of a drawn answers list.
MaxQ == 3
\* Questions of the long, uniform assignments that exercise the rounding.
LongQ == 40

\* Resources of the long course, and the completions its learner has recorded
\* when a behaviour starts.
LongR == 40
LongDone == 22

\* The grading behaviours stop taking grade calls when the clock shows this.
MaxClock == 7

\* The learners' behaviours take new calls that tick the clock until it shows
\* more than this.
MaxCalls == 3

\* ------------------------------------------------------- program constants

\* Significant binary digits of a Number (a double).
Precision == 53
NotFoundError == 404
ForbiddenError == 403
UnauthorizedError == 401
\* The value of an optional field that is not set (score?, completedAt?).
Unset == -1
\* A string parameter a request does not carry.
None == "-"

VARIABLES
  users,            \* User collection: id -> [role]
  courses,          \* Course collection: id -> [coachId, modules]
  assignments,      \* Assignment collection: id -> [type, courseId, mcqQuestions, subjectiveQuestions]
  paths,            \* Path collection: id -> [createdBy, courses]
  progress,         \* Progress collection: a set of documents
  pathEnrollments,  \* PathEnrollment collection: a set of documents
  reqs,             \* the requests being handled: slot -> [pc, rq, ...locals]
  resp,             \* the response sent last: [rq, status, body]
  nextId,           \* the next ObjectId the driver hands out
  clock,            \* the next value of new Date() / Date.now()
  submitAcks        \* history: Progress _id -> number of submit calls answered 200

vars == <<users, courses, assignments, paths, progress, pathEnrollments, reqs, resp, nextId, clock, submitAcks>>
dirVars == <<users, courses, assignments, paths>>

\* --------------------------------------------------------------- universe

Students == {"s1", "s2"}
Coaches == {"k1"}
Anonymous == "anon"
Callers == Students \cup Coaches \cup {Anonymous}

Idle == [pc |-> "idle"]
Slots == DOMAIN reqs
NoResp ==
  [rq |-> [op |-> None, user |-> None], status |-> 0, body |-> [message |-> None], wrote |-> FALSE]

\* ------------------------------------------------------------- middleware

\* A guard that lets every authenticated user pass.
RequireAuthenticated(caller, allowedRoles) ==
  IF caller \notin DOMAIN users THEN UnauthorizedError ELSE 0

\* requireRole(...allowedRoles): 0 when the request may pass.
RequireRole(caller, allowedRoles) ==
  IF caller \notin DOMAIN users THEN UnauthorizedError
  ELSE IF users[caller].role \notin allowedRoles THEN ForbiddenError
  ELSE 0

StudentOnly(caller) == RequireRole(caller, {"student"})
CoachOnly(caller) == RequireRole(caller, {"coach"})

\* ------------------------------------------------------------------ store

\* A lookup that filters on the course alone.
ProgressFindAnyLearner(userId, courseId) ==
  {p \in progress : p.courseId = courseId}

\* Progress.findOne({ userId, courseId }): the matching documents.
ProgressFind(userId, courseId) ==
  {p \in progress : p.userId = userId /\ p.courseId = courseId}

\* progressSchema.index({ userId: 1, courseId: 1 }, { unique: true }):
\* whether inserting a document for the pair raises E11000.
ProgressDuplicateKey(userId, courseId) ==
  ProgressFind(userId, courseId) # {}

\* The document Progress.create({ userId, courseId }) builds (schema defaults).
NewProgress(userId, courseId) ==
  [_id |-> nextId, userId |-> userId, courseId |-> courseId,
   enrolledAt |-> clock, completedAt |-> Unset,
   completedVideos |-> <<>>, completedDocuments |-> <<>>, submissions |-> <<>>,
   __v |-> 0]

\* A save() that writes the pushed elements as the whole array ($set).
ProgressSet(id, field, pushed) ==
  {IF p._id = id THEN [p EXCEPT ![field] = pushed] ELSE p : p \in progress}

\* A push that also stamps the record as completed.
ProgressPushCompleting(id, field, pushed) ==
  {IF p._id = id
     THEN [p EXCEPT ![field] = @ \o pushed, !.__v = @ + 1, !.completedAt = clock]
   ELSE p : p \in progress}

\* save() of a push onto an array path of the document with this _id:
\* updateOne({ _id }, { $push: { [field]: { $each: pushed } }, $inc: { __v: 1 } }).
\* A push bumps the version key and does not test it.
ProgressPush(id, field, pushed) ==
  {IF p._id = id THEN [p EXCEPT ![field] = @ \o pushed, !.__v = @ + 1] ELSE p :
     p \in progress}

\* --------------------------------------------------------------- requests

Request(op, user, courseId) ==
  [op |-> op, user |-> user, courseId |-> courseId, resourceId |-> None,
   resourceType |-> None, assignmentId |-> None, answers |-> <<>>, pathId |-> None,
   progressId |-> 0, submissionId |-> 0, score |-> Unset, feedback |-> None,
   type |-> None, modules |-> <<>>, courseIds |-> <<>>, role |-> None, tokenRole |-> None]

\* The response to rq; wrote records whether the step that answers changed
\* the store (history, not part of what the client receives).
Response(rq, status, body) ==
  [rq |-> rq, status |-> status, body |-> body,
   wrote |-> <<users, courses, assignments, paths, progress, pathEnrollments>>'
             # <<users, courses, assignments, paths, progress, pathEnrollments>>]

\* res.status(status).json(body) for the request in slot i, which ends it.
Respond(i, status, body) ==
  /\ resp' = Response(reqs[i].rq, status, body)
  /\ reqs' = [reqs EXCEPT ![i] = Idle]

\* A request answered in the step that receives it.
Reject(rq, status, body) ==
  /\ resp' = Response(rq, status, body)
  /\ UNCHANGED reqs

\* errorHandler for the errors the handlers raise.
ErrorBody(status) ==
  [message |-> CASE status = UnauthorizedError -> "Authentication required"
                 [] status = ForbiddenError -> "Forbidden"
                 [] status = NotFoundError -> "Not found"
                 [] status = 400 -> "Validation failed"
                 [] status = 409 -> "Duplicate entry"
                 [] OTHER -> "Internal server error"]

\* ------------------------------------------------- POST /api/progress/enroll

\* authenticate, studentOnly, validate, then Course.findById(courseId).
EnrollStart(i, caller, courseId) ==
  LET rq == Request("enroll", caller, courseId) IN
  /\ reqs[i] = Idle
  /\ UNCHANGED <<dirVars, progress, pathEnrollments, nextId, clock, submitAcks>>
  /\ IF StudentOnly(caller) # 0
       THEN Reject(rq, StudentOnly(caller), ErrorBody(StudentOnly(caller)))
     ELSE IF courseId \notin DOMAIN courses
       THEN Reject(rq, NotFoundError, ErrorBody(NotFoundError))
     ELSE /\ reqs' = [reqs EXCEPT ![i] = [pc |-> "enrollFind", rq |-> rq]]
          /\ UNCHANGED resp

\* existing = await Progress.findOne({ userId, courseId })
EnrollFind(i) ==
  /\ reqs[i].pc = "enrollFind"
  /\ UNCHANGED <<dirVars, progress, pathEnrollments, nextId, clock, submitAcks>>
  /\ IF ProgressFind(reqs[i].rq.user, reqs[i].rq.courseId) # {}
       THEN Respond(i, 409, [message |-> "Already enrolled in this course"])
     ELSE /\ reqs' = [reqs EXCEPT ![i].pc = "enrollCreate"]
          /\ UNCHANGED resp

\* progress = await Progress.create({ userId, courseId }); a duplicate key
\* (code 11000) reaches errorHandler, which answers 409.
EnrollCreate(i) ==
  LET rq == reqs[i].rq IN
  /\ reqs[i].pc = "enrollCreate"
  /\ UNCHANGED <<dirVars, pathEnrollments, submitAcks>>
  /\ IF ProgressDuplicateKey(rq.user, rq.courseId)
       THEN /\ UNCHANGED <<progress, nextId, clock>>
            /\ Respond(i, 409, ErrorBody(409))
     ELSE /\ progress' = progress \cup {NewProgress(rq.user, rq.courseId)}
          /\ nextId' = nextId + 1
          /\ clock' = clock + 1
          /\ Respond(i, 201, [message |-> "Enrolled successfully", progressId |-> nextId])

\* -------------------------------------- POST /api/progress/complete-resource

CompletionField(resourceType) ==
  IF resourceType = "video" THEN "completedVideos" ELSE "completedDocuments"

\* A membership test that compares ObjectIds by reference (===).
AlreadyCompletedByReference(doc, field, resourceId) == FALSE

\* progress[field].some((id) => id.equals(resourceObjectId))
AlreadyCompleted(doc, field, resourceId) ==
  \E k \in 1..Len(doc[field]) : doc[field][k] = resourceId

CompleteMessage(resourceType) ==
  [message |-> IF resourceType = "video" THEN "video marked as complete"
               ELSE "document marked as complete"]

\* authenticate, studentOnly, validate, then Progress.findOne and the
\* membership test on the document read; without a push nothing is saved.
CompleteStart(i, caller, courseId, resourceId, resourceType) ==
  LET rq == [Request("complete-resource", caller, courseId) EXCEPT
               !.resourceId = resourceId, !.resourceType = resourceType]
      found == ProgressFind(caller, courseId)
      field == CompletionField(resourceType)
  IN
  /\ reqs[i] = Idle
  /\ UNCHANGED <<dirVars, progress, pathEnrollments, nextId, clock, submitAcks>>
  /\ IF StudentOnly(caller) # 0
       THEN Reject(rq, StudentOnly(caller), ErrorBody(StudentOnly(caller)))
     ELSE IF found = {}
       THEN Reject(rq, 404, [message |-> "Not enrolled in this course"])
     ELSE \E doc \in found :
            IF AlreadyCompleted(doc, field, resourceId)
              THEN Reject(rq, 200, CompleteMessage(resourceType))
            ELSE /\ reqs' = [reqs EXCEPT ![i] =
                               [pc |-> "completeSave", rq |-> rq, docId |-> doc._id]]
                 /\ UNCHANGED resp

\* progress[field].push(resourceObjectId); await progress.save()
CompleteSave(i) ==
  LET rq == reqs[i].rq IN
  /\ reqs[i].pc = "completeSave"
  /\ UNCHANGED <<dirVars, pathEnrollments, nextId, clock, submitAcks>>
  /\ progress' = ProgressPush(reqs[i].docId, CompletionField(rq.resourceType), <<rq.resourceId>>)
  /\ Respond(i, 200, CompleteMessage(rq.resourceType))

\* ------------------------------------------------ POST /api/progress/submit-*

\* submitMCQSchema / submitSubjectiveSchema: answers is an array of at least
\* one entry (the entries' types are those the request sets draw from).
ValidAnswers(answers) == Len(answers) >= 1

\* A grading that takes a missing answer for a correct one.
SelectedCorrectOrMissing(q, answers, idx) ==
  \/ idx >= Len(answers)
  \/ LET selectedIdx == answers[idx + 1] IN
       /\ selectedIdx >= 0
       /\ selectedIdx < Len(q.options)
       /\ q.options[selectedIdx + 1].isCorrect

\* const selectedIdx = answers[idx];
\* selectedIdx !== undefined && q.options[selectedIdx]?.isCorrect
\* (idx counts from 0, as in the code).
SelectedCorrect(q, answers, idx) ==
  /\ idx < Len(answers)
  /\ LET selectedIdx == answers[idx + 1] IN
       /\ selectedIdx >= 0
       /\ selectedIdx < Len(q.options)
       /\ q.options[selectedIdx + 1].isCorrect

\* questions.forEach((q, idx) => { if (...) correctCount++; })
CountCorrect(questions, answers) ==
  Cardinality({idx \in 0..(Len(questions) - 1) :
                 SelectedCorrect(questions[idx + 1], answers, idx)})

\* ---- Number arithmetic: IEEE 754 binary64, round to nearest, ties to even.
\* A double x >= 0 is [bits, exp]: Precision binary digits, most significant
\* first, and the value 0.b1 b2 ... * 2^exp; zero has all digits 0.
\* The integers involved stay below 2^20.

\* The number of binary digits of a natural number, 0 for 0.
BitLength(n) == CHOOSE len \in 0..30 : n < 2^len /\ (len = 0 \/ 2^(len - 1) <= n)

\* The natural number n in width binary digits.
NatBits(n, width) == [j \in 1..width |-> (n \div 2^(width - j)) % 2]

RECURSIVE BitsNat(_)
\* The natural number of at most 30 binary digits.
BitsNat(bits) ==
  IF Len(bits) = 0 THEN 0
  ELSE IF Len(bits) = 1 THEN bits[1]
  ELSE BitsNat(SubSeq(bits, 1, Len(bits) \div 2)) * 2^(Len(bits) - Len(bits) \div 2)
       + BitsNat(SubSeq(bits, Len(bits) \div 2 + 1, Len(bits)))

RECURSIVE ShiftMod(_, _, _)
\* (rem * 2^k) % den.
ShiftMod(rem, den, k) ==
  IF k <= 10 THEN (rem * 2^k) % den ELSE ShiftMod((rem * 2^10) % den, den, k - 10)

RECURSIVE FractionBits(_, _, _)
\* The first k binary digits of rem / den after the point (rem < den), 10 at
\* a time.
FractionBits(rem, den, k) ==
  IF k <= 10 THEN NatBits((rem * 2^k) \div den, k)
  ELSE NatBits((rem * 2^10) \div den, 10) \o FractionBits((rem * 2^10) % den, den, k - 10)

\* The zeros that follow the point of rem / den (0 < rem < den).
FractionZeros(rem, den) == CHOOSE z \in 0..30 : 2^(z + 1) * rem >= den /\ 2^z * rem < den

\* bits + 1, one digit longer when bits is all ones.
Increment(bits) ==
  IF \A j \in 1..Len(bits) : bits[j] = 1 THEN <<1>> \o [j \in 1..Len(bits) |-> 0]
  ELSE LET last == CHOOSE j \in 1..Len(bits) :
                     bits[j] = 0 /\ \A i \in (j + 1)..Len(bits) : bits[i] = 1
       IN [j \in 1..Len(bits) |-> IF j < last THEN bits[j] ELSE IF j = last THEN 1 ELSE 0]

\* The double nearest to 0.digits * 2^exp; sticky says that digits was cut
\* from a longer expansion with a 1 further on.
RoundDouble(digits, exp, sticky) ==
  IF Len(digits) <= Precision
    THEN [bits |-> digits \o [j \in 1..(Precision - Len(digits)) |-> 0], exp |-> exp]
  ELSE LET kept == SubSeq(digits, 1, Precision)
           rest == sticky \/ \E j \in (Precision + 2)..Len(digits) : digits[j] = 1
           up == digits[Precision + 1] = 1 /\ (rest \/ kept[Precision] = 1)
           inc == Increment(kept)
       IN IF ~up THEN [bits |-> kept, exp |-> exp]
          ELSE IF Len(inc) > Precision
            THEN [bits |-> SubSeq(inc, 1, Precision), exp |-> exp + 1]
          ELSE [bits |-> inc, exp |-> exp]

\* num / den for integers num >= 0, den > 0.
Divide(num, den) ==
  IF num = 0 THEN [bits |-> [j \in 1..Precision |-> 0], exp |-> 0]
  ELSE LET int == NatBits(num \div den, BitLength(num \div den))
           rem == num % den
           z == IF Len(int) > 0 \/ rem = 0 THEN 0 ELSE FractionZeros(rem, den)
           k == Precision + 1 - Len(int) + z
       IN RoundDouble(int \o SubSeq(FractionBits(rem, den, k), z + 1, k),
                      Len(int) - z, ShiftMod(rem, den, k) # 0)

\* The last 18 digits of bits, or all of them.
LowDigits(bits) ==
  SubSeq(bits, IF Len(bits) > 18 THEN Len(bits) - 17 ELSE 1, Len(bits))

RECURSIVE MulCarry(_, _, _)
\* The digits of bits * k + carry, 18 digits of bits at a time (k < 2^12).
MulCarry(bits, k, carry) ==
  IF Len(bits) = 0 THEN NatBits(carry, BitLength(carry))
  ELSE LET low == LowDigits(bits)
           product == BitsNat(low) * k + carry
       IN MulCarry(SubSeq(bits, 1, Len(bits) - Len(low)), k, product \div 2^Len(low))
          \o NatBits(product % 2^Len(low), Len(low))

\* x * k for a double x and an integer 1 <= k < 2^12.
Times(x, k) ==
  LET digits == MulCarry(x.bits, k, 0) IN
  RoundDouble(digits, x.exp + Len(digits) - Len(x.bits), FALSE)

\* Math.round(x) for a double 0 <= x < 2^30: floor(x + 1/2), exactly.
MathRound(x) ==
  IF x.exp < 0 THEN 0 ELSE BitsNat(SubSeq(x.bits, 1, x.exp)) + x.bits[x.exp + 1]

\* whole > 0 ? Math.round((part / whole) * 100) : 0
Percent(part, whole) ==
  IF whole > 0 THEN MathRound(Times(Divide(part, whole), 100)) ELSE 0

\* The auto-grading block of POST /submit-mcq.
GradeMCQ(questions, answers) ==
  LET correctCount == CountCorrect(questions, answers) IN
  [score |-> Percent(correctCount, Len(questions)),
   correctCount |-> correctCount,
   totalQuestions |-> Len(questions)]

\* The subdocument progress.submissions.push({...}) builds.
NewSubmission(assignmentId, mcqAnswers, subjectiveAnswers, score) ==
  [_id |-> nextId, assignmentId |-> assignmentId, submittedAt |-> clock,
   mcqAnswers |-> mcqAnswers, subjectiveAnswers |-> subjectiveAnswers,
   score |-> score, feedback |-> None, gradedAt |-> Unset]

\* Submit requests being handled for the Progress document docId.
SubmitsInflight(docId) ==
  {j \in Slots : reqs[j].pc \in {"mcqGrade", "mcqSave", "subjCheck", "subjSave"}
                 /\ reqs[j].docId = docId}

\* The model stops taking submissions for a record that holds MaxSubs.
SubmitRoom(doc) ==
  Len(doc.submissions) + Cardinality(SubmitsInflight(doc._id)) < MaxSubs

AckCount(docId) == IF docId \in DOMAIN submitAcks THEN submitAcks[docId] ELSE 0

AckSubmit(docId) ==
  [d \in DOMAIN submitAcks \cup {docId} |->
     IF d = docId THEN AckCount(d) + 1 ELSE AckCount(d)]

\* authenticate, studentOnly, validate, then Progress.findOne.
SubmitStart(i, op, nextPc, caller, courseId, assignmentId, answers) ==
  LET rq == [Request(op, caller, courseId) EXCEPT
               !.assignmentId = assignmentId, !.answers = answers]
      found == ProgressFind(caller, courseId)
  IN
  /\ reqs[i] = Idle
  /\ UNCHANGED <<dirVars, progress, pathEnrollments, nextId, clock, submitAcks>>
  /\ IF StudentOnly(caller) # 0
       THEN Reject(rq, StudentOnly(caller), ErrorBody(StudentOnly(caller)))
     ELSE IF ~ValidAnswers(answers)
       THEN Reject(rq, 400, ErrorBody(400))
     ELSE IF found = {}
       THEN Reject(rq, 404, [message |-> "Not enrolled in this course"])
     ELSE \E doc \in found :
            /\ SubmitRoom(doc)
            /\ reqs' = [reqs EXCEPT ![i] = [pc |-> nextPc, rq |-> rq, docId |-> doc._id]]
            /\ UNCHANGED resp

\* A check of the assignment that forgets its type.
AssignmentExists(assignmentId, type) == assignmentId \in DOMAIN assignments

\* !assignment || assignment.type !== type, negated.
AssignmentOfType(assignmentId, type) ==
  /\ assignmentId \in DOMAIN assignments
  /\ assignments[assignmentId].type = type

SubmitMCQStart(i, caller, courseId, assignmentId, answers) ==
  SubmitStart(i, "submit-mcq", "mcqGrade", caller, courseId, assignmentId, answers)

\* assignment = await Assignment.findById(assignmentId); the type check, the
\* auto-grading and progress.submissions.push({...}).
SubmitMCQGrade(i) ==
  LET rq == reqs[i].rq IN
  /\ reqs[i].pc = "mcqGrade"
  /\ UNCHANGED <<dirVars, progress, pathEnrollments, submitAcks>>
  /\ IF ~AssignmentOfType(rq.assignmentId, "mcq")
       THEN /\ UNCHANGED <<nextId, clock>>
            /\ Respond(i, NotFoundError, ErrorBody(NotFoundError))
     ELSE LET grade == GradeMCQ(assignments[rq.assignmentId].mcqQuestions, rq.answers) IN
          /\ reqs' = [reqs EXCEPT ![i] =
                        [pc |-> "mcqSave", rq |-> rq, docId |-> reqs[i].docId,
                         grade |-> grade,
                         sub |-> NewSubmission(rq.assignmentId, rq.answers, <<>>, grade.score)]]
          /\ nextId' = nextId + 1
          /\ clock' = clock + 1
          /\ UNCHANGED resp

\* await progress.save(); res.json({ message, score, correctCount, totalQuestions })
SubmitMCQSave(i) ==
  /\ reqs[i].pc = "mcqSave"
  /\ UNCHANGED <<dirVars, pathEnrollments, nextId, clock>>
  /\ progress' = ProgressPush(reqs[i].docId, "submissions", <<reqs[i].sub>>)
  /\ submitAcks' = AckSubmit(reqs[i].docId)
  /\ Respond(i, 200, [message |-> "MCQ submitted successfully",
                       score |-> reqs[i].grade.score,
                       correctCount |-> reqs[i].grade.correctCount,
                       totalQuestions |-> reqs[i].grade.totalQuestions])

SubmitSubjectiveStart(i, caller, courseId, assignmentId, answers) ==
  SubmitStart(i, "submit-subjective", "subjCheck", caller, courseId, assignmentId, answers)

\* assignment = await Assignment.findById(assignmentId); the type check and
\* progress.submissions.push({...}) with no score.
SubmitSubjectiveCheck(i) ==
  LET rq == reqs[i].rq IN
  /\ reqs[i].pc = "subjCheck"
  /\ UNCHANGED <<dirVars, progress, pathEnrollments, submitAcks>>
  /\ IF ~AssignmentOfType(rq.assignmentId, "subjective")
       THEN /\ UNCHANGED <<nextId, clock>>
            /\ Respond(i, NotFoundError, ErrorBody(NotFoundError))
     ELSE /\ reqs' = [reqs EXCEPT ![i] =
                        [pc |-> "subjSave", rq |-> rq, docId |-> reqs[i].docId,
                         sub |-> NewSubmission(rq.assignmentId, <<>>, rq.answers, Unset)]]
          /\ nextId' = nextId + 1
          /\ clock' = clock + 1
          /\ UNCHANGED resp

\* await progress.save(); res.json({ message })
SubmitSubjectiveSave(i) ==
  /\ reqs[i].pc = "subjSave"
  /\ UNCHANGED <<dirVars, pathEnrollments, nextId, clock>>
  /\ progress' = ProgressPush(reqs[i].docId, "submissions", <<reqs[i].sub>>)
  /\ submitAcks' = AckSubmit(reqs[i].docId)
  /\ Respond(i, 200, [message |-> "Subjective assignment submitted successfully"])

\* ---------------- PATCH /api/progress/:progressId/submissions/:submissionId/grade

\* gradeSubmissionSchema: score is optional, a number from 0 to 100.
ValidGrade(score) == score = Unset \/ score \in 0..100

\* progress.submissions.find((s) => s._id.toString() === submissionId): the
\* positions of the document's array that match.
SubmissionIndex(doc, submissionId) ==
  {n \in 1..Len(doc.submissions) : doc.submissions[n]._id = submissionId}

\* A grading that scores 0 when the request carries no score.
GradedZero(submission, score, feedback, gradedAt) ==
  [submission EXCEPT !.score = IF score # Unset THEN score ELSE 0,
                     !.feedback = IF feedback # None THEN feedback ELSE @,
                     !.gradedAt = gradedAt]

\* A grading that replaces score and feedback by what the request carries,
\* unsetting what it does not carry.
GradedWhole(submission, score, feedback, gradedAt) ==
  [submission EXCEPT !.score = score, !.feedback = feedback, !.gradedAt = gradedAt]

\* if (score !== undefined) submission.score = score;
\* if (feedback !== undefined) submission.feedback = feedback;
\* submission.gradedAt = new Date();
Graded(submission, score, feedback, gradedAt) ==
  [submission EXCEPT !.score = IF score # Unset THEN score ELSE @,
                     !.feedback = IF feedback # None THEN feedback ELSE @,
                     !.gradedAt = gradedAt]

\* The paths of a submission that assigning to it marked modified: an
\* assignment of the value the path already holds marks nothing.
GradePaths == {"score", "feedback", "gradedAt"}
ModifiedPaths(before, after) == {f \in GradePaths : after[f] # before[f]}

\* save() of paths set on the element at position n of submissions:
\* updateOne({ _id, __v }, { $set: { 'submissions.n.<path>': ..., ... } }).
\* A set below an array position tests the version key the document was read
\* with and does not bump it; no document matching is a VersionError.
ProgressVersionMatches(doc) ==
  \E p \in progress : p._id = doc._id /\ p.__v = doc.__v

\* A save that writes a grade only to a submission never graded before.
ProgressSetOnce(doc, n, after, modified) ==
  {IF p._id = doc._id /\ p.submissions[n].gradedAt = Unset
     THEN [p EXCEPT !.submissions[n] =
             [f \in DOMAIN @ |-> IF f \in modified THEN after[f] ELSE @[f]]]
   ELSE p : p \in progress}

\* A save whose filter forgets the _id of the document.
ProgressSetAnywhere(doc, n, after, modified) ==
  {IF n <= Len(p.submissions)
     THEN [p EXCEPT !.submissions[n] =
             [f \in DOMAIN @ |-> IF f \in modified THEN after[f] ELSE @[f]]]
   ELSE p : p \in progress}

ProgressSetPaths(doc, n, after, modified) ==
  {IF p._id = doc._id
     THEN [p EXCEPT !.submissions[n] =
             [f \in DOMAIN @ |-> IF f \in modified THEN after[f] ELSE @[f]]]
   ELSE p : p \in progress}

\* authenticate, coachOnly, validate, then Progress.findById(progressId).
GradeStart(i, caller, progressId, submissionId, score, feedback) ==
  LET rq == [Request("grade", caller, None) EXCEPT
               !.progressId = progressId, !.submissionId = submissionId,
               !.score = score, !.feedback = feedback]
      found == {p \in progress : p._id = progressId}
  IN
  /\ reqs[i] = Idle
  /\ UNCHANGED <<dirVars, progress, pathEnrollments, nextId, clock, submitAcks>>
  /\ IF CoachOnly(caller) # 0
       THEN Reject(rq, CoachOnly(caller), ErrorBody(CoachOnly(caller)))
     ELSE IF ~ValidGrade(score)
       THEN Reject(rq, 400, ErrorBody(400))
     ELSE IF found = {}
       THEN Reject(rq, NotFoundError, ErrorBody(NotFoundError))
     ELSE \E doc \in found :
            /\ reqs' = [reqs EXCEPT ![i] = [pc |-> "gradePopulate", rq |-> rq, doc |-> doc]]
            /\ UNCHANGED resp

\* .populate('courseId'), the owner check (a TypeError when the course is
\* gone: populate leaves null), the lookup of the submission and the three
\* assignments to it.
GradePopulate(i) ==
  LET rq == reqs[i].rq
      doc == reqs[i].doc
      at == SubmissionIndex(doc, rq.submissionId)
  IN
  /\ reqs[i].pc = "gradePopulate"
  /\ UNCHANGED <<dirVars, progress, pathEnrollments, nextId, submitAcks>>
  /\ IF doc.courseId \notin DOMAIN courses
       THEN /\ UNCHANGED clock
            /\ Respond(i, 500, ErrorBody(500))
     ELSE IF courses[doc.courseId].coachId # rq.user
       THEN /\ UNCHANGED clock
            /\ Respond(i, ForbiddenError, ErrorBody(ForbiddenError))
     ELSE IF at = {}
       THEN /\ UNCHANGED clock
            /\ Respond(i, NotFoundError, ErrorBody(NotFoundError))
     ELSE \E n \in at :
            /\ \A m \in at : n <= m
            /\ reqs' = [reqs EXCEPT ![i] =
                          [pc |-> "gradeSave", rq |-> rq, doc |-> doc, index |-> n,
                           gradedAt |-> clock]]
            /\ clock' = clock + 1
            /\ UNCHANGED resp

\* await progress.save(); res.json({ message: 'Submission graded', submission })
GradeSave(i) ==
  LET rq == reqs[i].rq
      doc == reqs[i].doc
      before == doc.submissions[reqs[i].index]
      after == Graded(before, rq.score, rq.feedback, reqs[i].gradedAt)
  IN
  /\ reqs[i].pc = "gradeSave"
  /\ UNCHANGED <<dirVars, pathEnrollments, nextId, clock, submitAcks>>
  /\ IF ~ProgressVersionMatches(doc)
       THEN /\ UNCHANGED progress
            /\ Respond(i, 500, ErrorBody(500))
     ELSE /\ progress' = ProgressSetPaths(doc, reqs[i].index, after,
                                          ModifiedPaths(before, after))
          /\ Respond(i, 200, [message |-> "Submission graded", submission |-> after])

\* ------------------------------------------------ GET /api/progress/my-courses

RECURSIVE SumResources(_, _)
\* course.modules?.reduce((acc, m) => acc + (m.resources?.length || 0), 0) || 0,
\* over the modules from index k (from 1) on.
SumResources(modules, k) ==
  IF k > Len(modules) THEN 0
  ELSE Len(modules[k].resources) + SumResources(modules, k + 1)

TotalResources(course) == SumResources(course.modules, 1)

\* p.completedVideos.length + p.completedDocuments.length
CompletedResources(p) == Len(p.completedVideos) + Len(p.completedDocuments)

\* The document a descending sort on key puts first.
Newest(docs, key) == CHOOSE x \in docs : \A y \in docs : y[key] <= x[key]

RECURSIVE SortNewestFirst(_, _)
\* .sort({ [key]: -1 }) of a set of documents.
SortNewestFirst(docs, key) ==
  IF docs = {} THEN <<>>
  ELSE <<Newest(docs, key)>> \o SortNewestFirst(docs \ {Newest(docs, key)}, key)

\* One entry of coursesWithProgress.
CourseWithProgress(p) ==
  LET course == courses[p.courseId] IN
  [courseId |-> p.courseId,
   totalModules |-> Len(course.modules),
   enrolledAt |-> p.enrolledAt,
   completedAt |-> p.completedAt,
   progress |-> Percent(CompletedResources(p), TotalResources(course)),
   completedVideos |-> Len(p.completedVideos),
   completedDocuments |-> Len(p.completedDocuments),
   submissionsCount |-> Len(p.submissions)]

\* The whole handler: Progress.find({ userId }).populate('courseId').sort(...)
\* and the map over the enrollments.  A populated courseId is null when the
\* course is gone, and reading course.modules then throws (500).
MyCourses(caller) ==
  LET rq == Request("my-courses", caller, None)
      enrollments == SortNewestFirst({p \in progress : p.userId = caller}, "enrolledAt")
  IN
  /\ UNCHANGED <<dirVars, progress, pathEnrollments, reqs, nextId, clock, submitAcks>>
  /\ IF StudentOnly(caller) # 0
       THEN resp' = Response(rq, StudentOnly(caller), ErrorBody(StudentOnly(caller)))
     ELSE IF \E k \in 1..Len(enrollments) : enrollments[k].courseId \notin DOMAIN courses
       THEN resp' = Response(rq, 500, ErrorBody(500))
     ELSE resp' = Response(rq, 200,
                     [courses |-> [k \in 1..Len(enrollments) |->
                                     CourseWithProgress(enrollments[k])]])

\* ------------------------------------------------------ POST /api/paths/start

PathEnrollmentFind(userId, pathId) ==
  {e \in pathEnrollments : e.userId = userId /\ e.pathId = pathId}

\* The collection without its unique index: no insert raises E11000.
PathEnrollmentNoIndex(userId, pathId) == FALSE

\* pathEnrollmentSchema.index({ userId: 1, pathId: 1 }, { unique: true })
PathEnrollmentDuplicateKey(userId, pathId) ==
  PathEnrollmentFind(userId, pathId) # {}

\* A create that drops the path of the enrollment it stores.
PathEnrollmentOfNoPath(userId, pathId) ==
  [_id |-> nextId, userId |-> userId, pathId |-> None,
   startedAt |-> clock, completedAt |-> Unset]

\* The document PathEnrollment.create({ userId, pathId }) builds.
NewPathEnrollment(userId, pathId) ==
  [_id |-> nextId, userId |-> userId, pathId |-> pathId,
   startedAt |-> clock, completedAt |-> Unset]

\* authenticate, studentOnly, validate, then Path.findById(pathId).
PathStartStart(i, caller, pathId) ==
  LET rq == [Request("start-path", caller, None) EXCEPT !.pathId = pathId] IN
  /\ reqs[i] = Idle
  /\ UNCHANGED <<dirVars, progress, pathEnrollments, nextId, clock, submitAcks>>
  /\ IF StudentOnly(caller) # 0
       THEN Reject(rq, StudentOnly(caller), ErrorBody(StudentOnly(caller)))
     ELSE IF pathId \notin DOMAIN paths
       THEN Reject(rq, NotFoundError, ErrorBody(NotFoundError))
     ELSE /\ reqs' = [reqs EXCEPT ![i] = [pc |-> "pathFind", rq |-> rq]]
          /\ UNCHANGED resp

\* existing = await PathEnrollment.findOne({ userId, pathId })
PathStartFind(i) ==
  /\ reqs[i].pc = "pathFind"
  /\ UNCHANGED <<dirVars, progress, pathEnrollments, nextId, clock, submitAcks>>
  /\ IF PathEnrollmentFind(reqs[i].rq.user, reqs[i].rq.pathId) # {}
       THEN Respond(i, 409, [message |-> "Already started this path"])
     ELSE /\ reqs' = [reqs EXCEPT ![i].pc = "pathCreate"]
          /\ UNCHANGED resp

\* enrollment = await PathEnrollment.create({ userId, pathId })
PathStartCreate(i) ==
  LET rq == reqs[i].rq IN
  /\ reqs[i].pc = "pathCreate"
  /\ UNCHANGED <<dirVars, progress, submitAcks>>
  /\ IF PathEnrollmentDuplicateKey(rq.user, rq.pathId)
       THEN /\ UNCHANGED <<pathEnrollments, nextId, clock>>
            /\ Respond(i, 409, ErrorBody(409))
     ELSE /\ pathEnrollments' = pathEnrollments \cup {NewPathEnrollment(rq.user, rq.pathId)}
          /\ nextId' = nextId + 1
          /\ clock' = clock + 1
          /\ Respond(i, 201, [message |-> "Path started", enrollmentId |-> nextId])

\* --------------------------------------------------- GET /api/paths/my-paths

\* populate('courses'): the course documents of the ids that resolve, in the
\* path's order (an id with no document is dropped from the array).
PopulatedCourses(path) ==
  SelectSeq(path.courses, LAMBDA c : c \in DOMAIN courses)

\* Progress.find({ userId, courseId: { $in: courseIds } })
ProgressIn(userId, courseIds) ==
  {p \in progress : p.userId = userId
                    /\ \E k \in 1..Len(courseIds) : courseIds[k] = p.courseId}

\* courseProgress = progresses.find((p) => p.courseId.toString() === course._id.toString())
CompletedIn(progresses, courseId) ==
  LET matching == {p \in progresses : p.courseId = courseId} IN
  IF matching = {} THEN 0
  ELSE CompletedResources(CHOOSE p \in matching : TRUE)

RECURSIVE PathTotals(_, _, _, _)
\* path.courses.forEach((course) => { totalResources += ...; completedResources += ...; }),
\* from index k (from 1) on, totals being the two running sums.
PathTotals(courseIds, progresses, k, totals) ==
  IF k > Len(courseIds) THEN totals
  ELSE PathTotals(courseIds, progresses, k + 1,
         [totalResources |->
            totals.totalResources + TotalResources(courses[courseIds[k]]),
          completedResources |->
            totals.completedResources + CompletedIn(progresses, courseIds[k])])

\* One entry of pathsWithProgress, for an enrollment whose path resolves.
PathWithProgress(enrollment) ==
  LET path == paths[enrollment.pathId]
      courseIds == PopulatedCourses(path)
      progresses == ProgressIn(enrollment.userId, courseIds)
      totals == PathTotals(courseIds, progresses, 1,
                          [totalResources |-> 0, completedResources |-> 0])
  IN
  [pathId |-> enrollment.pathId,
   totalCourses |-> Len(courseIds),
   startedAt |-> enrollment.startedAt,
   completedAt |-> enrollment.completedAt,
   progress |-> Percent(totals.completedResources, totals.totalResources),
   coursesCompleted |-> Cardinality({p \in progresses : p.completedAt # Unset})]

\* The whole handler: PathEnrollment.find({ userId }).populate(...).sort(...),
\* the per-path Progress.find and the aggregation; an enrollment whose path is
\* gone yields null and is filtered out.
MyPaths(caller) ==
  LET rq == Request("my-paths", caller, None)
      enrollments == SortNewestFirst({e \in pathEnrollments : e.userId = caller}, "startedAt")
      kept == SelectSeq(enrollments, LAMBDA e : e.pathId \in DOMAIN paths)
  IN
  /\ UNCHANGED <<dirVars, progress, pathEnrollments, reqs, nextId, clock, submitAcks>>
  /\ IF StudentOnly(caller) # 0
       THEN resp' = Response(rq, StudentOnly(caller), ErrorBody(StudentOnly(caller)))
     ELSE resp' = Response(rq, 200,
                     [paths |-> [k \in 1..Len(kept) |-> PathWithProgress(kept[k])]])

\* ----------------------------------------------- GET /api/paths/:id/progress

\* One entry of coursesWithProgress of the path breakdown.
PathCourseProgress(courseId, index, progresses) ==
  LET matching == {p \in progresses : p.courseId = courseId} IN
  [order |-> index,
   courseId |-> courseId,
   enrolled |-> matching # {},
   progress |-> Percent(CompletedIn(progresses, courseId), TotalResources(courses[courseId])),
   completedAt |-> IF matching = {} THEN Unset ELSE (CHOOSE p \in matching : TRUE).completedAt]

\* The whole handler: the enrollment check, Path.findById(pathId).populate(...),
\* Progress.find and the map over the path's courses.
PathProgress(caller, pathId) ==
  LET rq == [Request("path-progress", caller, None) EXCEPT !.pathId = pathId] IN
  /\ UNCHANGED <<dirVars, progress, pathEnrollments, reqs, nextId, clock, submitAcks>>
  /\ IF StudentOnly(caller) # 0
       THEN resp' = Response(rq, StudentOnly(caller), ErrorBody(StudentOnly(caller)))
     ELSE IF PathEnrollmentFind(caller, pathId) = {}
       THEN resp' = Response(rq, 404, [message |-> "Not started this path"])
     ELSE IF pathId \notin DOMAIN paths
       THEN resp' = Response(rq, NotFoundError, ErrorBody(NotFoundError))
     ELSE LET courseIds == PopulatedCourses(paths[pathId])
              progresses == ProgressIn(caller, courseIds)
          IN resp' = Response(rq, 200,
                        [pathId |-> pathId,
                         courses |-> [k \in 1..Len(courseIds) |->
                                        PathCourseProgress(courseIds[k], k, progresses)]])

\* ------------------------------------------------- DELETE /api/courses/:id

\* authenticate, coachOnly, Course.findById(id) and the ownership check.
CourseDeleteStart(i, caller, courseId) ==
  LET rq == Request("delete-course", caller, courseId) IN
  /\ reqs[i] = Idle
  /\ UNCHANGED <<dirVars, progress, pathEnrollments, nextId, clock, submitAcks>>
  /\ IF CoachOnly(caller) # 0
       THEN Reject(rq, CoachOnly(caller), ErrorBody(CoachOnly(caller)))
     ELSE IF courseId \notin DOMAIN courses
       THEN Reject(rq, NotFoundError, ErrorBody(NotFoundError))
     ELSE IF courses[courseId].coachId # caller
       THEN Reject(rq, ForbiddenError, ErrorBody(ForbiddenError))
     ELSE /\ reqs' = [reqs EXCEPT ![i] = [pc |-> "courseDelete", rq |-> rq]]
          /\ UNCHANGED resp

\* await course.deleteOne(): only the Course document goes.
CourseDeleteOne(i) ==
  /\ reqs[i].pc = "courseDelete"
  /\ UNCHANGED <<users, assignments, paths, progress, pathEnrollments, nextId, clock, submitAcks>>
  /\ courses' = [c \in DOMAIN courses \ {reqs[i].rq.courseId} |-> courses[c]]
  /\ Respond(i, 200, [message |-> "Course deleted"])

\* ------------------------------------------------------------ seeded store

\* A reachable store: what the coach's create operations leave behind.
Option(isCorrect) == [text |-> "o", isCorrect |-> isCorrect]
\* A question whose only correct option is at index k (from 0) of n options.
Question(k, n) == [options |-> [j \in 1..n |-> Option(j = k + 1)]]
Module(resources, assignmentId) == [resources |-> resources, assignmentId |-> assignmentId]

SeedUsers ==
  [u \in Students \cup Coaches |-> [role |-> IF u \in Students THEN "student" ELSE "coach"]]

\* c1: modules of 3 and 2 resources; c2: one module holding only an assignment.
SeedCourses ==
  [c \in {"c1", "c2"} |->
     IF c = "c1"
       THEN [coachId |-> "k1",
             modules |-> <<Module(<<"video", "video", "document">>, "a1"),
                           Module(<<"video", "document">>, None)>>]
     ELSE [coachId |-> "k1", modules |-> <<Module(<<>>, "a2")>>]]

\* a1: four MCQ questions with the correct answers at indices [1,0,2,1].
SeedAssignments ==
  [a \in {"a1", "a2"} |->
     IF a = "a1"
       THEN [type |-> "mcq", courseId |-> "c1",
             mcqQuestions |-> <<Question(1, 2), Question(0, 2), Question(2, 3), Question(1, 2)>>,
             subjectiveQuestions |-> <<>>]
     ELSE [type |-> "subjective", courseId |-> "c2",
           mcqQuestions |-> <<>>,
           subjectiveQuestions |-> <<[questionText |-> "q", maxWords |-> Unset]>>]]

SeedPaths == [p \in {"p1"} |-> [createdBy |-> "k1", courses |-> <<"c1", "c2">>]]

\* ------------------------------------------------------- the progress tracker

\* Enrollment and resource completion, with MaxInflight requests interleaved
\* at their awaits.
TrackerCourses == {"c1", "c9"}
\* The (resourceId, resourceType) pairs complete-resource is called with.
TrackerCompletions == {<<"r1", "video">>, <<"r2", "video">>, <<"r1", "document">>}

Init ==
  /\ users = SeedUsers
  /\ courses = SeedCourses
  /\ assignments = SeedAssignments
  /\ paths = SeedPaths
  /\ progress = {}
  /\ pathEnrollments = {}
  /\ reqs = [i \in 1..MaxInflight |-> Idle]
  /\ resp = NoResp
  /\ nextId = 1
  /\ clock = 1
  /\ submitAcks = <<>>

Next ==
  \/ \E i \in Slots, u \in Students, c \in TrackerCourses : EnrollStart(i, u, c)
  \/ \E i \in Slots : EnrollFind(i)
  \/ \E i \in Slots : EnrollCreate(i)
  \/ \E i \in Slots, c \in TrackerCourses, rt \in TrackerCompletions :
       CompleteStart(i, "s1", c, rt[1], rt[2])
  \/ \E i \in Slots : CompleteSave(i)
  \/ \E i \in Slots, k \in Coaches, c \in TrackerCourses : CourseDeleteStart(i, k, c)
  \/ \E i \in Slots : CourseDeleteOne(i)

Spec == Init /\ [][Next]_vars

\* ------------------------------------------------- one request after another

\* n resources, videos and documents in turn.
Resources(n) == [j \in 1..n |-> IF j % 2 = 1 THEN "video" ELSE "document"]

\* A course whose k-th module has shape[k] resources; a module without
\* resources holds an assignment.
CourseOfShape(shape) ==
  [coachId |-> "k1",
   modules |-> [k \in 1..Len(shape) |->
                  Module(Resources(shape[k]), IF shape[k] = 0 THEN "a2" ELSE None)]]

\* The module shapes drawn for c1 and for c2.
ShapesC1 == {<<3, 2>>, <<4, 4>>, <<0>>, <<1>>}
ShapesC2 == {<<0>>, <<3>>}

\* The (courseId, resourceId, resourceType) complete-resource is called with.
SeqCompletions ==
  {<<"c1", "r1", "video">>, <<"c1", "r2", "video">>, <<"c1", "r1", "document">>,
   <<"c2", "r1", "video">>, <<"c9", "r1", "video">>}

\* What enroll and LongDone complete-resource calls leave for s1 and c1.
LongProgress ==
  [_id |-> 1, userId |-> "s1", courseId |-> "c1", enrolledAt |-> 1, completedAt |-> Unset,
   completedVideos |-> [j \in 1..LongDone |-> "v" \o ToString(j)],
   completedDocuments |-> <<>>, submissions |-> <<>>, __v |-> LongDone]

\* Either nobody is enrolled yet, or c1 is the long course and s1 is part way
\* through it.
InitSeq ==
  /\ users = SeedUsers
  /\ assignments = SeedAssignments
  /\ paths = SeedPaths
  /\ pathEnrollments = {}
  /\ reqs = [i \in 1..1 |-> Idle]
  /\ resp = NoResp
  /\ submitAcks = <<>>
  /\ \E s1 \in ShapesC1 \cup {<<LongR>>}, s2 \in ShapesC2 :
       /\ courses = [c \in {"c1", "c2"} |->
                       IF c = "c1" THEN CourseOfShape(s1) ELSE CourseOfShape(s2)]
       /\ progress = IF s1 = <<LongR>> THEN {LongProgress} ELSE {}
       /\ nextId = IF s1 = <<LongR>> THEN 2 ELSE 1
       /\ clock = IF s1 = <<LongR>> THEN 2 ELSE 1

NextSeq ==
  \/ \E i \in Slots, c \in {"c1", "c2", "c9"} : EnrollStart(i, "s1", c)
  \/ \E i \in Slots : EnrollFind(i)
  \/ \E i \in Slots : EnrollCreate(i)
  \/ \E i \in Slots, crt \in SeqCompletions : CompleteStart(i, "s1", crt[1], crt[2], crt[3])
  \/ \E i \in Slots : CompleteSave(i)
  \/ \E i \in Slots, p \in {"p1", "p9"} : PathStartStart(i, "s1", p)
  \/ \E i \in Slots : PathStartFind(i)
  \/ \E i \in Slots : PathStartCreate(i)
  \/ MyCourses("s1")
  \/ MyPaths("s1")
  \/ \E p \in {"p1", "p9"} : PathProgress("s1", p)

SpecSeq == InitSeq /\ [][NextSeq]_vars

\* ------------------------------------------------------------- submissions

\* s1 is enrolled in c1 (the record POST /enroll left); s2 is not enrolled.
EnrolledS1 ==
  [_id |-> 1, userId |-> "s1", courseId |-> "c1", enrolledAt |-> 1, completedAt |-> Unset,
   completedVideos |-> <<>>, completedDocuments |-> <<>>, submissions |-> <<>>,
   __v |-> 0]

SubmitAssignments == {"a1", "a2", "a9"}
SubmitMCQAnswers == {<<>>, <<1, 0, 0, 1>>, <<1>>}
SubmitSubjectiveAnswers == {<<>>, <<"essay">>}

InitSubmit ==
  /\ users = SeedUsers
  /\ courses = SeedCourses
  /\ assignments = SeedAssignments
  /\ paths = SeedPaths
  /\ progress = {EnrolledS1}
  /\ pathEnrollments = {}
  /\ reqs = [i \in 1..MaxInflight |-> Idle]
  /\ resp = NoResp
  /\ nextId = 2
  /\ clock = 2
  /\ submitAcks = <<>>

NextSubmit ==
  \/ \E i \in Slots, u \in Students, a \in SubmitAssignments, ans \in SubmitMCQAnswers :
       SubmitMCQStart(i, u, "c1", a, ans)
  \/ \E i \in Slots : SubmitMCQGrade(i)
  \/ \E i \in Slots : SubmitMCQSave(i)
  \/ \E i \in Slots, u \in Students, a \in SubmitAssignments, ans \in SubmitSubjectiveAnswers :
       SubmitSubjectiveStart(i, u, "c1", a, ans)
  \/ \E i \in Slots : SubmitSubjectiveCheck(i)
  \/ \E i \in Slots : SubmitSubjectiveSave(i)

SpecSubmit == InitSubmit /\ [][NextSubmit]_vars

\* ----------------------------------------------------------------- grading

\* The questions an MCQ assignment is drawn from, and the answer entries.
GradeQuestions == {Question(0, 2), Question(1, 2), Question(2, 3)}
GradeAnswerValues == {-1, 0, 1, 2}

SeqsUpTo(S, n) == UNION {[1..m -> S] : m \in 0..n}

\* Long assignments of identical questions, answered right k times, then wrong.
LongKeys == {[j \in 1..n |-> Question(1, 2)] : n \in (MaxQ + 1)..LongQ}
LongAnswers == {[j \in 1..LongQ |-> IF j <= k THEN 1 ELSE 0] : k \in 0..LongQ}

GradeKeys ==
  SeqsUpTo(GradeQuestions, MaxQ) \cup {SeedAssignments["a1"].mcqQuestions} \cup LongKeys
GradeAnswers ==
  SeqsUpTo(GradeAnswerValues, MaxQ) \cup {<<1, 0, 0, 1>>} \cup LongAnswers

InitGrade ==
  /\ users = SeedUsers
  /\ courses = SeedCourses
  /\ \E key \in GradeKeys :
       assignments = [SeedAssignments EXCEPT !["a1"].mcqQuestions = key]
  /\ paths = SeedPaths
  /\ progress = {EnrolledS1}
  /\ pathEnrollments = {}
  /\ reqs = [i \in 1..1 |-> Idle]
  /\ resp = NoResp
  /\ nextId = 2
  /\ clock = 2
  /\ submitAcks = <<>>

\* One submission per behaviour: the grading of one answers list.
NextGrade ==
  \/ \E i \in Slots, ans \in GradeAnswers :
       /\ \A p \in progress : p.submissions = <<>>
       /\ SubmitMCQStart(i, "s1", "c1", "a1", ans)
  \/ \E i \in Slots : SubmitMCQGrade(i)
  \/ \E i \in Slots : SubmitMCQSave(i)

SpecGrade == InitGrade /\ [][NextGrade]_vars

\* ------------------------------------------------------ grading by a coach

\* A second coach, who owns c2.
OtherCoach == "k2"
GradingUsers ==
  [u \in DOMAIN SeedUsers \cup {OtherCoach} |->
     IF u = OtherCoach THEN [role |-> "coach"] ELSE SeedUsers[u]]
GradingCourses == [SeedCourses EXCEPT !["c2"].coachId = OtherCoach]
\* The path k1 created over the course it owns.
OwnerPaths == [p \in {"p1"} |-> [createdBy |-> "k1", courses |-> <<"c1">>]]
OwnerCoaches == Coaches \cup {OtherCoach}

\* s1 has submitted twice to a1 in c1, s2 once to a2 in c2; nothing is graded
\* by a coach yet.
SubmittedS1 ==
  [EnrolledS1 EXCEPT
     !.submissions =
        <<[_id |-> 3, assignmentId |-> "a1", submittedAt |-> 2,
           mcqAnswers |-> <<1, 0, 0, 1>>, subjectiveAnswers |-> <<>>,
           score |-> GradeMCQ(SeedAssignments["a1"].mcqQuestions, <<1, 0, 0, 1>>).score,
           feedback |-> None, gradedAt |-> Unset],
          [_id |-> 4, assignmentId |-> "a1", submittedAt |-> 3,
           mcqAnswers |-> <<1>>, subjectiveAnswers |-> <<>>,
           score |-> GradeMCQ(SeedAssignments["a1"].mcqQuestions, <<1>>).score,
           feedback |-> None, gradedAt |-> Unset]>>,
     !.__v = 2]
SubmittedS2 ==
  [_id |-> 2, userId |-> "s2", courseId |-> "c2", enrolledAt |-> 1, completedAt |-> Unset,
   completedVideos |-> <<>>, completedDocuments |-> <<>>,
   submissions |->
     <<[_id |-> 5, assignmentId |-> "a2", submittedAt |-> 4,
        mcqAnswers |-> <<>>, subjectiveAnswers |-> <<"essay">>,
        score |-> Unset, feedback |-> None, gradedAt |-> Unset]>>,
   __v |-> 1]

GradeScores == {40, 90}
GradeFeedback == {"good", "redo"}

\* Grade calls only, MaxInflight of them interleaved at their awaits.
InitRegrade ==
  /\ users = GradingUsers
  /\ courses = GradingCourses
  /\ assignments = SeedAssignments
  /\ paths = SeedPaths
  /\ progress = {SubmittedS1, SubmittedS2}
  /\ pathEnrollments = {}
  /\ reqs = [i \in 1..MaxInflight |-> Idle]
  /\ resp = NoResp
  /\ nextId = 6
  /\ clock = 5
  /\ submitAcks = <<>>

NextRegrade ==
  \/ \E i \in Slots, score \in GradeScores, feedback \in GradeFeedback :
       /\ clock < MaxClock
       /\ GradeStart(i, "k1", 1, 3, score, feedback)
  \/ \E i \in Slots : GradePopulate(i)
  \/ \E i \in Slots : GradeSave(i)

SpecRegrade == InitRegrade /\ [][NextRegrade]_vars

\* Grade calls one after another, each carrying a score or none and feedback
\* or none, for the two auto-graded submissions of s1.
PartialScores == {Unset, 40, 90}
PartialFeedback == {None, "good", "redo"}

InitPartial ==
  /\ users = GradingUsers
  /\ courses = GradingCourses
  /\ assignments = SeedAssignments
  /\ paths = OwnerPaths
  /\ progress = {SubmittedS1, SubmittedS2}
  /\ pathEnrollments = {}
  /\ reqs = [i \in 1..1 |-> Idle]
  /\ resp = NoResp
  /\ nextId = 6
  /\ clock = 5
  /\ submitAcks = <<>>

NextPartial ==
  \/ \E i \in Slots, sid \in {3, 4}, score \in PartialScores, feedback \in PartialFeedback :
       /\ clock < MaxClock
       /\ GradeStart(i, "k1", 1, sid, score, feedback)
  \/ \E i \in Slots : GradePopulate(i)
  \/ \E i \in Slots : GradeSave(i)

SpecPartial == InitPartial /\ [][NextPartial]_vars

\* Submitting and grading interleaved, while the owner of c1 may delete it.
\* s1 is enrolled in c1 and has submitted nothing; s2 has one submission in c2.
ReviewProgressIds == {1, 9}
ReviewSubmissionIds == {6, 9}
ReviewScores == {Unset, 40}

InitReview ==
  /\ users = GradingUsers
  /\ courses = GradingCourses
  /\ assignments = SeedAssignments
  /\ paths = SeedPaths
  /\ progress = {EnrolledS1, SubmittedS2}
  /\ pathEnrollments = {}
  /\ reqs = [i \in 1..MaxInflight |-> Idle]
  /\ resp = NoResp
  /\ nextId = 6
  /\ clock = 5
  /\ submitAcks = <<>>

NextReview ==
  \/ \E i \in Slots : SubmitSubjectiveStart(i, "s1", "c1", "a2", <<"essay">>)
  \/ \E i \in Slots : SubmitSubjectiveCheck(i)
  \/ \E i \in Slots : SubmitSubjectiveSave(i)
  \/ \E i \in Slots, k \in Coaches \cup {OtherCoach}, pid \in ReviewProgressIds,
         sid \in ReviewSubmissionIds, score \in ReviewScores :
       /\ clock <= MaxClock
       /\ GradeStart(i, k, pid, sid, score, "good")
  \/ \E i \in Slots : GradePopulate(i)
  \/ \E i \in Slots : GradeSave(i)
  \/ \E i \in Slots : CourseDeleteStart(i, "k1", "c1")
  \/ \E i \in Slots : CourseDeleteOne(i)

SpecReview == InitReview /\ [][NextReview]_vars

\* ------------------------------------------------------ the learners' calls

\* Every learner operation, by both learners, and grading by the coach,
\* interleaved. c1 is a course of one video, so that one completion is all of it.
LearnerCourses == [c \in {"c1"} |-> CourseOfShape(<<1>>)]
LearnerPaths == [p \in {"p1"} |-> [createdBy |-> "k1", courses |-> <<"c1">>]]

InitLearner ==
  /\ users = SeedUsers
  /\ courses = LearnerCourses
  /\ assignments = SeedAssignments
  /\ paths = LearnerPaths
  /\ progress = {}
  /\ pathEnrollments = {}
  /\ reqs = [i \in 1..MaxInflight |-> Idle]
  /\ resp = NoResp
  /\ nextId = 1
  /\ clock = 1
  /\ submitAcks = <<>>

NextLearner ==
  \/ \E i \in Slots, u \in Students : clock <= MaxCalls /\ EnrollStart(i, u, "c1")
  \/ \E i \in Slots : EnrollFind(i)
  \/ \E i \in Slots : EnrollCreate(i)
  \/ \E i \in Slots, u \in Students : CompleteStart(i, u, "c1", "r1", "video")
  \/ \E i \in Slots : CompleteSave(i)
  \/ \E i \in Slots, u \in Students :
       clock <= MaxCalls /\ SubmitMCQStart(i, u, "c1", "a1", <<1>>)
  \/ \E i \in Slots : SubmitMCQGrade(i)
  \/ \E i \in Slots : SubmitMCQSave(i)
  \/ \E i \in Slots, u \in Students :
       clock <= MaxCalls /\ SubmitSubjectiveStart(i, u, "c1", "a2", <<"essay">>)
  \/ \E i \in Slots : SubmitSubjectiveCheck(i)
  \/ \E i \in Slots : SubmitSubjectiveSave(i)
  \/ \E i \in Slots, u \in Students, p \in {"p1", "p9"} :
       clock <= MaxCalls /\ PathStartStart(i, u, p)
  \/ \E i \in Slots : PathStartFind(i)
  \/ \E i \in Slots : PathStartCreate(i)
  \/ \E i \in Slots, p \in progress :
       \E n \in 1..Len(p.submissions) :
         clock <= MaxCalls /\ GradeStart(i, "k1", p._id, p.submissions[n]._id, 40, "good")
  \/ \E i \in Slots : GradePopulate(i)
  \/ \E i \in Slots : GradeSave(i)

SpecLearner == InitLearner /\ [][NextLearner]_vars

\* ------------------------------ the coach's course, assignment and path routes

\* The _id of a new Course, Assignment or Path document.
NewKey(prefix) == prefix \o ToString(nextId)

\* POST /api/courses: authenticate, coachOnly, validate, new Course({...data,
\* coachId}) and course.save().
CourseCreate(caller, shape) ==
  LET rq == [Request("create-course", caller, None) EXCEPT !.modules = shape]
      id == NewKey("c")
  IN
  /\ UNCHANGED <<users, assignments, paths, progress, pathEnrollments, reqs, clock, submitAcks>>
  /\ IF CoachOnly(caller) # 0
       THEN /\ UNCHANGED <<courses, nextId>>
            /\ resp' = Response(rq, CoachOnly(caller), ErrorBody(CoachOnly(caller)))
     ELSE /\ courses' = [c \in DOMAIN courses \cup {id} |->
                          IF c = id THEN [CourseOfShape(shape) EXCEPT !.coachId = caller]
                          ELSE courses[c]]
          /\ nextId' = nextId + 1
          /\ resp' = Response(rq, 201, [message |-> "Course created", courseId |-> id])

\* PUT /api/courses/:id: authenticate, coachOnly, validate, Course.findById and
\* the ownership check.
CourseUpdateStart(i, caller, courseId, shape) ==
  LET rq == [Request("update-course", caller, courseId) EXCEPT !.modules = shape] IN
  /\ reqs[i] = Idle
  /\ UNCHANGED <<dirVars, progress, pathEnrollments, nextId, clock, submitAcks>>
  /\ IF CoachOnly(caller) # 0
       THEN Reject(rq, CoachOnly(caller), ErrorBody(CoachOnly(caller)))
     ELSE IF courseId \notin DOMAIN courses
       THEN Reject(rq, NotFoundError, ErrorBody(NotFoundError))
     ELSE IF courses[courseId].coachId # caller
       THEN Reject(rq, ForbiddenError, ErrorBody(ForbiddenError))
     ELSE /\ reqs' = [reqs EXCEPT ![i] = [pc |-> "courseSave", rq |-> rq]]
          /\ UNCHANGED resp

\* Object.assign(course, req.body); await course.save(): a document deleted
\* since it was read is a DocumentNotFoundError.
CourseUpdateSave(i) ==
  LET rq == reqs[i].rq IN
  /\ reqs[i].pc = "courseSave"
  /\ UNCHANGED <<users, assignments, paths, progress, pathEnrollments, nextId, clock, submitAcks>>
  /\ IF rq.courseId \notin DOMAIN courses
       THEN /\ UNCHANGED courses
            /\ Respond(i, 500, ErrorBody(500))
     ELSE /\ courses' = [courses EXCEPT ![rq.courseId].modules = CourseOfShape(rq.modules).modules]
          /\ Respond(i, 200, [message |-> "Course updated"])

\* The questions a new assignment of this type is created with.
NewAssignment(type, courseId) ==
  [type |-> type, courseId |-> courseId,
   mcqQuestions |-> IF type = "mcq" THEN <<Question(0, 2)>> ELSE <<>>,
   subjectiveQuestions |-> IF type = "mcq" THEN <<>>
                           ELSE <<[questionText |-> "q", maxWords |-> Unset]>>]

\* Course.findById(id) and the comparison of its coachId with the caller:
\* 0 when the caller owns the course.
OwnedCourse(caller, courseId) ==
  IF courseId \notin DOMAIN courses THEN NotFoundError
  ELSE IF courses[courseId].coachId # caller THEN ForbiddenError
  ELSE 0

\* POST /api/assignments: authenticate, coachOnly, validate, Course.findById
\* and the ownership check.
AssignmentCreateStart(i, caller, courseId, type) ==
  LET rq == [Request("create-assignment", caller, courseId) EXCEPT !.type = type] IN
  /\ reqs[i] = Idle
  /\ UNCHANGED <<dirVars, progress, pathEnrollments, nextId, clock, submitAcks>>
  /\ IF CoachOnly(caller) # 0
       THEN Reject(rq, CoachOnly(caller), ErrorBody(CoachOnly(caller)))
     ELSE IF OwnedCourse(caller, courseId) # 0
       THEN Reject(rq, OwnedCourse(caller, courseId), ErrorBody(OwnedCourse(caller, courseId)))
     ELSE /\ reqs' = [reqs EXCEPT ![i] = [pc |-> "assignmentCreate", rq |-> rq]]
          /\ UNCHANGED resp

\* new Assignment(data); await assignment.save()
AssignmentCreateSave(i) ==
  LET rq == reqs[i].rq
      id == NewKey("a")
  IN
  /\ reqs[i].pc = "assignmentCreate"
  /\ UNCHANGED <<users, courses, paths, progress, pathEnrollments, clock, submitAcks>>
  /\ assignments' = [a \in DOMAIN assignments \cup {id} |->
                       IF a = id THEN NewAssignment(rq.type, rq.courseId) ELSE assignments[a]]
  /\ nextId' = nextId + 1
  /\ Respond(i, 201, [message |-> "Assignment created", assignmentId |-> id])

\* PUT and DELETE /api/assignments/:id: authenticate, coachOnly, validate and
\* Assignment.findById.
AssignmentChangeStart(i, op, caller, assignmentId, type) ==
  LET rq == [Request(op, caller, None) EXCEPT !.assignmentId = assignmentId, !.type = type] IN
  /\ reqs[i] = Idle
  /\ UNCHANGED <<dirVars, progress, pathEnrollments, nextId, clock, submitAcks>>
  /\ IF CoachOnly(caller) # 0
       THEN Reject(rq, CoachOnly(caller), ErrorBody(CoachOnly(caller)))
     ELSE IF assignmentId \notin DOMAIN assignments
       THEN Reject(rq, NotFoundError, ErrorBody(NotFoundError))
     ELSE /\ reqs' = [reqs EXCEPT ![i] =
                        [pc |-> "assignmentCourse", rq |-> rq,
                         courseId |-> assignments[assignmentId].courseId]]
          /\ UNCHANGED resp

AssignmentUpdateStart(i, caller, assignmentId, type) ==
  AssignmentChangeStart(i, "update-assignment", caller, assignmentId, type)

AssignmentDeleteStart(i, caller, assignmentId) ==
  AssignmentChangeStart(i, "delete-assignment", caller, assignmentId, None)

\* course = await Course.findById(assignment.courseId) and the ownership check.
AssignmentChangeCourse(i) ==
  LET rq == reqs[i].rq IN
  /\ reqs[i].pc = "assignmentCourse"
  /\ UNCHANGED <<dirVars, progress, pathEnrollments, nextId, clock, submitAcks>>
  /\ IF OwnedCourse(rq.user, reqs[i].courseId) # 0
       THEN Respond(i, OwnedCourse(rq.user, reqs[i].courseId),
                    ErrorBody(OwnedCourse(rq.user, reqs[i].courseId)))
     ELSE /\ reqs' = [reqs EXCEPT ![i] =
                        [pc |-> IF rq.op = "update-assignment" THEN "assignmentSave"
                                ELSE "assignmentDelete",
                         rq |-> rq]]
          /\ UNCHANGED resp

\* Object.assign(assignment, req.body); await assignment.save(): the body
\* passed updateAssignmentSchema, in which every field is optional and no
\* field is compared with another. The requests carry a type and no questions.
AssignmentUpdateSave(i) ==
  LET rq == reqs[i].rq IN
  /\ reqs[i].pc = "assignmentSave"
  /\ UNCHANGED <<users, courses, paths, progress, pathEnrollments, nextId, clock, submitAcks>>
  /\ IF rq.assignmentId \notin DOMAIN assignments
       THEN /\ UNCHANGED assignments
            /\ Respond(i, 500, ErrorBody(500))
     ELSE /\ assignments' = [assignments EXCEPT ![rq.assignmentId].type =
                                                  IF rq.type # None THEN rq.type ELSE @]
          /\ Respond(i, 200, [message |-> "Assignment updated"])

\* await assignment.deleteOne()
AssignmentDeleteOne(i) ==
  /\ reqs[i].pc = "assignmentDelete"
  /\ UNCHANGED <<users, courses, paths, progress, pathEnrollments, nextId, clock, submitAcks>>
  /\ assignments' = [a \in DOMAIN assignments \ {reqs[i].rq.assignmentId} |-> assignments[a]]
  /\ Respond(i, 200, [message |-> "Assignment deleted"])

\* The elements of a list of ids.
IdSet(ids) == {ids[k] : k \in 1..Len(ids)}

\* Course.find({ _id: { $in: courseIds } })
CoursesIn(courseIds) == IdSet(courseIds) \cap DOMAIN courses

NotOwned(caller, found) == {c \in found : courses[c].coachId # caller}

\* POST /api/paths: authenticate, coachOnly, validate, Course.find and the two
\* checks of what it returned.
PathCreateStart(i, caller, courseIds) ==
  LET rq == [Request("create-path", caller, None) EXCEPT !.courseIds = courseIds]
      found == CoursesIn(courseIds)
  IN
  /\ reqs[i] = Idle
  /\ UNCHANGED <<dirVars, progress, pathEnrollments, nextId, clock, submitAcks>>
  /\ IF CoachOnly(caller) # 0
       THEN Reject(rq, CoachOnly(caller), ErrorBody(CoachOnly(caller)))
     ELSE IF Cardinality(found) # Len(courseIds)
       THEN Reject(rq, 400, [message |-> "Some courses not found"])
     ELSE IF NotOwned(caller, found) # {}
       THEN Reject(rq, ForbiddenError, [message |-> "You can only add your own courses to a path"])
     ELSE /\ reqs' = [reqs EXCEPT ![i] = [pc |-> "pathCreate2", rq |-> rq]]
          /\ UNCHANGED resp

\* path = await Path.create({ ..., createdBy: userId, courses })
PathCreateSave(i) ==
  LET rq == reqs[i].rq
      id == NewKey("p")
  IN
  /\ reqs[i].pc = "pathCreate2"
  /\ UNCHANGED <<users, courses, assignments, progress, pathEnrollments, clock, submitAcks>>
  /\ paths' = [p \in DOMAIN paths \cup {id} |->
                 IF p = id THEN [createdBy |-> rq.user, courses |-> rq.courseIds]
                 ELSE paths[p]]
  /\ nextId' = nextId + 1
  /\ Respond(i, 201, [message |-> "Path created", pathId |-> id])

\* A lookup of the path that compares no owner.
OwnedPathByAnyone(caller, pathId) ==
  IF pathId \notin DOMAIN paths THEN NotFoundError ELSE 0

\* Path.findById(id) and the comparison of createdBy with the caller.
OwnedPath(caller, pathId) ==
  IF pathId \notin DOMAIN paths THEN NotFoundError
  ELSE IF paths[pathId].createdBy # caller THEN ForbiddenError
  ELSE 0

\* PUT /api/paths/:id: authenticate, coachOnly, validate, Path.findById and
\* the ownership check. The request carries courseIds.
PathUpdateStart(i, caller, pathId, courseIds) ==
  LET rq == [Request("update-path", caller, None) EXCEPT
               !.pathId = pathId, !.courseIds = courseIds]
  IN
  /\ reqs[i] = Idle
  /\ UNCHANGED <<dirVars, progress, pathEnrollments, nextId, clock, submitAcks>>
  /\ IF CoachOnly(caller) # 0
       THEN Reject(rq, CoachOnly(caller), ErrorBody(CoachOnly(caller)))
     ELSE IF OwnedPath(caller, pathId) # 0
       THEN Reject(rq, OwnedPath(caller, pathId), ErrorBody(OwnedPath(caller, pathId)))
     ELSE /\ reqs' = [reqs EXCEPT ![i] = [pc |-> "pathCourses", rq |-> rq]]
          /\ UNCHANGED resp

\* courses = await Course.find(...) and the ownership check of those found.
PathUpdateCourses(i) ==
  LET rq == reqs[i].rq IN
  /\ reqs[i].pc = "pathCourses"
  /\ UNCHANGED <<dirVars, progress, pathEnrollments, nextId, clock, submitAcks>>
  /\ IF NotOwned(rq.user, CoursesIn(rq.courseIds)) # {}
       THEN Respond(i, ForbiddenError, [message |-> "You can only add your own courses"])
     ELSE /\ reqs' = [reqs EXCEPT ![i].pc = "pathSave"]
          /\ UNCHANGED resp

\* path.courses = courseIds...; await path.save()
PathUpdateSave(i) ==
  LET rq == reqs[i].rq IN
  /\ reqs[i].pc = "pathSave"
  /\ UNCHANGED <<users, courses, assignments, progress, pathEnrollments, nextId, clock, submitAcks>>
  /\ IF rq.pathId \notin DOMAIN paths
       THEN /\ UNCHANGED paths
            /\ Respond(i, 500, ErrorBody(500))
     ELSE /\ paths' = [paths EXCEPT ![rq.pathId].courses = rq.courseIds]
          /\ Respond(i, 200, [message |-> "Path updated"])

\* DELETE /api/paths/:id: authenticate, coachOnly, Path.findById and the
\* ownership check.
PathDeleteStart(i, caller, pathId) ==
  LET rq == [Request("delete-path", caller, None) EXCEPT !.pathId = pathId] IN
  /\ reqs[i] = Idle
  /\ UNCHANGED <<dirVars, progress, pathEnrollments, nextId, clock, submitAcks>>
  /\ IF CoachOnly(caller) # 0
       THEN Reject(rq, CoachOnly(caller), ErrorBody(CoachOnly(caller)))
     ELSE IF OwnedPath(caller, pathId) # 0
       THEN Reject(rq, OwnedPath(caller, pathId), ErrorBody(OwnedPath(caller, pathId)))
     ELSE /\ reqs' = [reqs EXCEPT ![i] =
                        [pc |-> "pathDelete", rq |-> rq, todo |-> {"path", "enrollments"}]]
          /\ UNCHANGED resp

\* Promise.all([path.deleteOne(), PathEnrollment.deleteMany({ pathId })]):
\* the two deletions in either order, then res.json.
PathDeleteOne(i) ==
  LET rq == reqs[i].rq IN
  /\ reqs[i].pc = "pathDelete"
  /\ "path" \in reqs[i].todo
  /\ UNCHANGED <<users, courses, assignments, progress, pathEnrollments, nextId, clock, submitAcks>>
  /\ paths' = [p \in DOMAIN paths \ {rq.pathId} |-> paths[p]]
  /\ IF reqs[i].todo = {"path"}
       THEN Respond(i, 200, [message |-> "Path deleted"])
     ELSE /\ reqs' = [reqs EXCEPT ![i].todo = @ \ {"path"}]
          /\ UNCHANGED resp

PathDeleteMany(i) ==
  LET rq == reqs[i].rq IN
  /\ reqs[i].pc = "pathDelete"
  /\ "enrollments" \in reqs[i].todo
  /\ UNCHANGED <<dirVars, progress, nextId, clock, submitAcks>>
  /\ pathEnrollments' = {e \in pathEnrollments : e.pathId # rq.pathId}
  /\ IF reqs[i].todo = {"enrollments"}
       THEN Respond(i, 200, [message |-> "Path deleted"])
     ELSE /\ reqs' = [reqs EXCEPT ![i].todo = @ \ {"enrollments"}]
          /\ UNCHANGED resp

\* authenticate: 0 when the token names a user, who may have either role.
Authenticated(caller) ==
  IF caller \notin DOMAIN users THEN UnauthorizedError ELSE 0

\* sanitized.mcqQuestions.map((q) => ({ ...q, options: q.options.map((o) =>
\* ({ text: o.text })) })): each option keeps its text only.
HideCorrect(questions) ==
  [q \in DOMAIN questions |->
     [questions[q] EXCEPT !.options = [j \in DOMAIN @ |-> [text |-> @[j].text]]]]

\* A view that shows every caller the stored document.
AssignmentAsStored(role, doc) == doc

\* What the two GET routes send of an assignment to a caller of this role.
AssignmentView(role, doc) ==
  IF role = "student" THEN [doc EXCEPT !.mcqQuestions = HideCorrect(@)] ELSE doc

\* GET /api/assignments/:id: authenticate and Assignment.findById.
AssignmentGet(caller, assignmentId) ==
  LET rq == [Request("get-assignment", caller, None) EXCEPT !.assignmentId = assignmentId] IN
  /\ UNCHANGED <<dirVars, progress, pathEnrollments, reqs, nextId, clock, submitAcks>>
  /\ resp' =
       IF Authenticated(caller) # 0
         THEN Response(rq, Authenticated(caller), ErrorBody(Authenticated(caller)))
       ELSE IF assignmentId \notin DOMAIN assignments
         THEN Response(rq, NotFoundError, ErrorBody(NotFoundError))
       ELSE Response(rq, 200,
                     [assignment |-> AssignmentView(users[caller].role, assignments[assignmentId])])

\* GET /api/assignments/course/:courseId: authenticate and
\* Assignment.find({ courseId }).
AssignmentList(caller, courseId) ==
  LET rq == Request("list-assignments", caller, courseId)
      found == {a \in DOMAIN assignments : assignments[a].courseId = courseId}
  IN
  /\ UNCHANGED <<dirVars, progress, pathEnrollments, reqs, nextId, clock, submitAcks>>
  /\ resp' =
       IF Authenticated(caller) # 0
         THEN Response(rq, Authenticated(caller), ErrorBody(Authenticated(caller)))
       ELSE Response(rq, 200,
                     [assignments |->
                        [a \in found |-> AssignmentView(users[caller].role, assignments[a])]])

\* ------------------------------------------------ POST /api/users/set-role

\* role: payload['urn:zitadel:iam:user:metadata']?.role || 'student'
CreatedRole(tokenRole) == IF tokenRole # None THEN tokenRole ELSE "student"

\* The handler up to its await, for the user authenticate attached: 0 when
\* the role may be set.
SetRoleCheck(dbUser, role) ==
  IF role \notin {"student", "coach"} THEN 400
  ELSE IF dbUser.role # None THEN ForbiddenError
  ELSE 0

SetRoleBody(status) ==
  [message |-> IF status = 400 THEN "Invalid role" ELSE "Role already set"]

\* authenticate up to User.findOne({ zitadelId }); when it finds the user,
\* the handler runs up to its await.
SetRoleStart(i, caller, tokenRole, role) ==
  LET rq == [Request("set-role", caller, None) EXCEPT !.role = role, !.tokenRole = tokenRole] IN
  /\ reqs[i] = Idle
  /\ UNCHANGED <<dirVars, progress, pathEnrollments, nextId, clock, submitAcks>>
  /\ IF caller = Anonymous
       THEN Reject(rq, UnauthorizedError, ErrorBody(UnauthorizedError))
     ELSE IF caller \notin DOMAIN users
       THEN /\ reqs' = [reqs EXCEPT ![i] = [pc |-> "authCreate", rq |-> rq]]
            /\ UNCHANGED resp
     ELSE IF SetRoleCheck(users[caller], role) # 0
       THEN Reject(rq, SetRoleCheck(users[caller], role),
                   SetRoleBody(SetRoleCheck(users[caller], role)))
     ELSE /\ reqs' = [reqs EXCEPT ![i] = [pc |-> "setRoleUpdate", rq |-> rq]]
          /\ UNCHANGED resp

\* dbUser = await User.create({ zitadelId, ..., role }) of authenticate (the
\* zitadelId is unique), then the handler up to its await.
AuthCreate(i) ==
  LET rq == reqs[i].rq
      dbUser == [role |-> CreatedRole(rq.tokenRole)]
  IN
  /\ reqs[i].pc = "authCreate"
  /\ UNCHANGED <<courses, assignments, paths, progress, pathEnrollments, nextId, clock, submitAcks>>
  /\ IF rq.user \in DOMAIN users
       THEN /\ UNCHANGED users
            /\ Respond(i, 409, ErrorBody(409))
     ELSE /\ users' = [u \in DOMAIN users \cup {rq.user} |->
                         IF u = rq.user THEN dbUser ELSE users[u]]
          /\ IF SetRoleCheck(dbUser, rq.role) # 0
               THEN Respond(i, SetRoleCheck(dbUser, rq.role),
                            SetRoleBody(SetRoleCheck(dbUser, rq.role)))
             ELSE /\ reqs' = [reqs EXCEPT ![i].pc = "setRoleUpdate"]
                  /\ UNCHANGED resp

\* await User.findByIdAndUpdate(user._id, { role }); res.json(...)
SetRoleUpdate(i) ==
  LET rq == reqs[i].rq IN
  /\ reqs[i].pc = "setRoleUpdate"
  /\ UNCHANGED <<courses, assignments, paths, progress, pathEnrollments, nextId, clock, submitAcks>>
  /\ users' = [u \in DOMAIN users |-> IF u = rq.user THEN [role |-> rq.role] ELSE users[u]]
  /\ Respond(i, 200, [message |-> "Role set successfully", role |-> rq.role])

\* GET /api/progress/course/:courseId/submissions: authenticate, coachOnly,
\* Course.findById and the ownership check.
ListSubmissionsStart(i, caller, courseId) ==
  LET rq == Request("list-submissions", caller, courseId) IN
  /\ reqs[i] = Idle
  /\ UNCHANGED <<dirVars, progress, pathEnrollments, nextId, clock, submitAcks>>
  /\ IF CoachOnly(caller) # 0
       THEN Reject(rq, CoachOnly(caller), ErrorBody(CoachOnly(caller)))
     ELSE IF OwnedCourse(caller, courseId) # 0
       THEN Reject(rq, OwnedCourse(caller, courseId), ErrorBody(OwnedCourse(caller, courseId)))
     ELSE /\ reqs' = [reqs EXCEPT ![i] = [pc |-> "listSubmissions", rq |-> rq]]
          /\ UNCHANGED resp

\* Progress.find({ courseId }) and the flatMap over the submissions: each with
\* the student and the progressId of its record.
ListSubmissionsFind(i) ==
  LET rq == reqs[i].rq
      found == {p \in progress : p.courseId = rq.courseId}
  IN
  /\ reqs[i].pc = "listSubmissions"
  /\ UNCHANGED <<dirVars, progress, pathEnrollments, nextId, clock, submitAcks>>
  /\ Respond(i, 200,
             [submissions |->
                {[submission |-> p.submissions[n], student |-> p.userId, progressId |-> p._id] :
                   <<p, n>> \in {<<q, m>> \in found \X (1..MaxSubs) : m <= Len(q.submissions)}}])

\* -------------------------------------------------------------- every route

\* Every gated route, called by a learner, a coach and without a token, one
\* request after another. s1 has submitted once in c1.
GateFirstId == 6
\* New documents the behaviours create.
MaxNew == 1
GateRoom == nextId < GateFirstId + MaxNew
GateCallers == {"s1", "k1", Anonymous}
\* The coach changes the courses, assignments and paths once in a behaviour.
AsSeeded == courses = SeedCourses /\ assignments = SeedAssignments /\ paths = SeedPaths

SubmittedOnce ==
  [SubmittedS1 EXCEPT !.submissions = <<SubmittedS1.submissions[1]>>, !.__v = 1]

InitGate ==
  /\ users = SeedUsers
  /\ courses = SeedCourses
  /\ assignments = SeedAssignments
  /\ paths = SeedPaths
  /\ progress = {SubmittedOnce}
  /\ pathEnrollments = {}
  /\ reqs = [i \in 1..1 |-> Idle]
  /\ resp = NoResp
  /\ nextId = GateFirstId
  /\ clock = 5
  /\ submitAcks = <<>>

NextGate ==
  \/ \E i \in Slots, u \in GateCallers : GateRoom /\ EnrollStart(i, u, "c2")
  \/ \E i \in Slots : EnrollFind(i)
  \/ \E i \in Slots : EnrollCreate(i)
  \/ \E u \in GateCallers : MyCourses(u)
  \/ \E i \in Slots, u \in GateCallers : CompleteStart(i, u, "c1", "r1", "video")
  \/ \E i \in Slots : CompleteSave(i)
  \/ \E i \in Slots, u \in GateCallers : GateRoom /\ SubmitMCQStart(i, u, "c1", "a1", <<1>>)
  \/ \E i \in Slots : SubmitMCQGrade(i)
  \/ \E i \in Slots : SubmitMCQSave(i)
  \/ \E i \in Slots, u \in GateCallers :
       GateRoom /\ SubmitSubjectiveStart(i, u, "c1", "a2", <<"essay">>)
  \/ \E i \in Slots : SubmitSubjectiveCheck(i)
  \/ \E i \in Slots : SubmitSubjectiveSave(i)
  \/ \E i \in Slots, u \in GateCallers : GateRoom /\ PathStartStart(i, u, "p1")
  \/ \E i \in Slots : PathStartFind(i)
  \/ \E i \in Slots : PathStartCreate(i)
  \/ \E u \in GateCallers : MyPaths(u)
  \/ \E u \in GateCallers : PathProgress(u, "p1")
  \/ \E u \in GateCallers : GateRoom /\ AsSeeded /\ CourseCreate(u, <<1>>)
  \/ \E i \in Slots, u \in GateCallers : AsSeeded /\ CourseUpdateStart(i, u, "c2", <<1>>)
  \/ \E i \in Slots : CourseUpdateSave(i)
  \/ \E i \in Slots, u \in GateCallers : AsSeeded /\ CourseDeleteStart(i, u, "c2")
  \/ \E i \in Slots : CourseDeleteOne(i)
  \/ \E i \in Slots, u \in GateCallers : GateRoom /\ AsSeeded /\ AssignmentCreateStart(i, u, "c1", "mcq")
  \/ \E i \in Slots : AssignmentCreateSave(i)
  \/ \E i \in Slots, u \in GateCallers : AsSeeded /\ AssignmentUpdateStart(i, u, "a2", "mcq")
  \/ \E i \in Slots, u \in GateCallers : AsSeeded /\ AssignmentDeleteStart(i, u, "a2")
  \/ \E i \in Slots : AssignmentChangeCourse(i)
  \/ \E i \in Slots : AssignmentUpdateSave(i)
  \/ \E i \in Slots : AssignmentDeleteOne(i)
  \/ \E i \in Slots, u \in GateCallers : GateRoom /\ AsSeeded /\ PathCreateStart(i, u, <<"c1">>)
  \/ \E i \in Slots : PathCreateSave(i)
  \/ \E i \in Slots, u \in GateCallers : AsSeeded /\ PathUpdateStart(i, u, "p1", <<"c1">>)
  \/ \E i \in Slots : PathUpdateCourses(i)
  \/ \E i \in Slots : PathUpdateSave(i)
  \/ \E i \in Slots, u \in GateCallers : AsSeeded /\ PathDeleteStart(i, u, "p1")
  \/ \E i \in Slots : PathDeleteOne(i)
  \/ \E i \in Slots : PathDeleteMany(i)
  \/ \E i \in Slots, u \in GateCallers : ListSubmissionsStart(i, u, "c1")
  \/ \E i \in Slots : ListSubmissionsFind(i)
  \/ \E i \in Slots, u \in GateCallers :
       clock < MaxClock /\ GradeStart(i, u, 1, 3, 40, "good")
  \/ \E i \in Slots : GradePopulate(i)
  \/ \E i \in Slots : GradeSave(i)

SpecGate == InitGate /\ [][NextGate]_vars

\* ------------------------------------------------------ reading assignments

\* The two GET routes of the assignments, called by a learner, a coach and
\* without a token, on a store whose MCQ assignment a1 has one of the answer
\* keys a coach can create it with; the coach may delete a2.
KeyQuestions ==
  {<<Question(k1, 2), Question(k2, 3)>> : <<k1, k2>> \in (0..1) \X (0..2)}

InitKey ==
  /\ users = SeedUsers
  /\ courses = SeedCourses
  /\ \E questions \in KeyQuestions :
       assignments = [SeedAssignments EXCEPT !["a1"].mcqQuestions = questions]
  /\ paths = SeedPaths
  /\ progress = {}
  /\ pathEnrollments = {}
  /\ reqs = [i \in 1..1 |-> Idle]
  /\ resp = NoResp
  /\ nextId = 1
  /\ clock = 1
  /\ submitAcks = <<>>

NextKey ==
  \/ \E u \in GateCallers, a \in {"a1", "a2", "a9"} : AssignmentGet(u, a)
  \/ \E u \in GateCallers, c \in {"c1", "c2"} : AssignmentList(u, c)
  \/ \E i \in Slots : AssignmentDeleteStart(i, "k1", "a2")
  \/ \E i \in Slots : AssignmentChangeCourse(i)
  \/ \E i \in Slots : AssignmentDeleteOne(i)

SpecKey == InitKey /\ [][NextKey]_vars

\* ------------------------------------------------- starting a deleted path

\* The learners start p1 and list their paths while its owner deletes it,
\* MaxInflight requests interleaved at their awaits.
InitPathDelete ==
  /\ users = SeedUsers
  /\ courses = SeedCourses
  /\ assignments = SeedAssignments
  /\ paths = SeedPaths
  /\ progress = {}
  /\ pathEnrollments = {}
  /\ reqs = [i \in 1..MaxInflight |-> Idle]
  /\ resp = NoResp
  /\ nextId = 1
  /\ clock = 1
  /\ submitAcks = <<>>

NextPathDelete ==
  \/ \E i \in Slots, u \in Students : PathStartStart(i, u, "p1")
  \/ \E i \in Slots : PathStartFind(i)
  \/ \E i \in Slots : PathStartCreate(i)
  \/ \E u \in Students : MyPaths(u)
  \/ \E i \in Slots : PathDeleteStart(i, "k1", "p1")
  \/ \E i \in Slots : PathDeleteOne(i)
  \/ \E i \in Slots : PathDeleteMany(i)

SpecPathDelete == InitPathDelete /\ [][NextPathDelete]_vars

\* ------------------------------------------------- the courses of a path

\* The two coaches create paths and update p1, naming their own course, the
\* other coach's course and a course that is not stored.
PathCourseIds == {<<"c1">>, <<"c2">>, <<"c9">>, <<"c1", "c9">>}

InitPaths ==
  /\ users = GradingUsers
  /\ courses = GradingCourses
  /\ assignments = SeedAssignments
  /\ paths = OwnerPaths
  /\ progress = {}
  /\ pathEnrollments = {}
  /\ reqs = [i \in 1..MaxInflight |-> Idle]
  /\ resp = NoResp
  /\ nextId = GateFirstId
  /\ clock = 1
  /\ submitAcks = <<>>

NextPaths ==
  \/ \E i \in Slots, k \in OwnerCoaches, ids \in PathCourseIds :
       GateRoom /\ PathCreateStart(i, k, ids)
  \/ \E i \in Slots : PathCreateSave(i)
  \/ \E i \in Slots, k \in OwnerCoaches, ids \in PathCourseIds :
       PathUpdateStart(i, k, "p1", ids)
  \/ \E i \in Slots : PathUpdateCourses(i)
  \/ \E i \in Slots : PathUpdateSave(i)

SpecPaths == InitPaths /\ [][NextPaths]_vars

\* ------------------------------------------------------------ new users

\* Users the identity provider knows and the User collection does not hold
\* yet; their tokens carry a role or none. They call set-role, one request
\* after another.
NewUsers == {"n1", "n2"}
TokenRoles == {None, "student", "coach"}
AskedRoles == {"student", "coach", "admin"}

InitUsers ==
  /\ users = SeedUsers
  /\ courses = SeedCourses
  /\ assignments = SeedAssignments
  /\ paths = SeedPaths
  /\ progress = {}
  /\ pathEnrollments = {}
  /\ reqs = [i \in 1..1 |-> Idle]
  /\ resp = NoResp
  /\ nextId = 1
  /\ clock = 1
  /\ submitAcks = <<>>

\* No state a behaviour reaches has a request waiting at the update of
\* set-role, so SetRoleUpdate is no step of the behaviours.
NextUsers ==
  \/ \E i \in Slots, u \in NewUsers \cup {Anonymous}, tokenRole \in TokenRoles,
        role \in AskedRoles :
       SetRoleStart(i, u, tokenRole, role)
  \/ \E i \in Slots : AuthCreate(i)

SpecUsers == InitUsers /\ [][NextUsers]_vars

\* ------------------------------------------------------------- two coaches

\* k1 owns c1 (with a1) and the path p1 over it, k2 owns c2 (with a2). Both
\* coaches call every update and delete route on what k1 owns, MaxInflight
\* requests interleaved at their awaits.

InitOwner ==
  /\ users = GradingUsers
  /\ courses = GradingCourses
  /\ assignments = SeedAssignments
  /\ paths = OwnerPaths
  /\ progress = {}
  /\ pathEnrollments = {}
  /\ reqs = [i \in 1..MaxInflight |-> Idle]
  /\ resp = NoResp
  /\ nextId = 1
  /\ clock = 1
  /\ submitAcks = <<>>

NextOwner ==
  \/ \E i \in Slots, k \in OwnerCoaches : CourseUpdateStart(i, k, "c1", <<1>>)
  \/ \E i \in Slots : CourseUpdateSave(i)
  \/ \E i \in Slots, k \in OwnerCoaches : CourseDeleteStart(i, k, "c1")
  \/ \E i \in Slots : CourseDeleteOne(i)
  \/ \E i \in Slots, k \in OwnerCoaches : AssignmentUpdateStart(i, k, "a1", "mcq")
  \/ \E i \in Slots, k \in OwnerCoaches : AssignmentDeleteStart(i, k, "a1")
  \/ \E i \in Slots : AssignmentChangeCourse(i)
  \/ \E i \in Slots : AssignmentUpdateSave(i)
  \/ \E i \in Slots : AssignmentDeleteOne(i)
  \/ \E i \in Slots, k \in OwnerCoaches, c \in {"c1", "c2"} : PathUpdateStart(i, k, "p1", <<c>>)
  \/ \E i \in Slots : PathUpdateCourses(i)
  \/ \E i \in Slots : PathUpdateSave(i)
  \/ \E i \in Slots, k \in OwnerCoaches : PathDeleteStart(i, k, "p1")
  \/ \E i \in Slots : PathDeleteOne(i)
  \/ \E i \in Slots : PathDeleteMany(i)

SpecOwner == InitOwner /\ [][NextOwner]_vars

\* What the step being taken answers, if it answers a request: a slot is
\* freed, or a request is turned away at once.
Answers(op) ==
  /\ resp'.rq.op = op
  /\ \/ resp' # resp
     \/ \E i \in Slots : reqs[i] # Idle /\ reqs'[i] = Idle /\ reqs[i].rq.op = op

\* At most one Progress record per (learner, course).
UniqueProgressPair ==
  \A p, q \in progress : (p.userId = q.userId /\ p.courseId = q.courseId) => p = q

\* C3 as stated: at most one Progress record exists per (learner, course) in
\* every state, and an enroll for a pair that already has a record is answered
\* 409 and creates no record.
C3_EnrollConflict ==
  [][/\ UniqueProgressPair'
     /\ (Answers("enroll") /\ ProgressFind(resp'.rq.user, resp'.rq.courseId) # {})
          => (resp'.status = 409 /\ progress' = progress)]_vars

\* What enroll does keep: at most one Progress record per (learner, course) in
\* every state, and an enroll for a pair that already has a record creates no
\* record and is answered 409, or 404 when the course does not exist any more.
C3_EnrollConflictOrGone ==
  [][/\ UniqueProgressPair'
     /\ (Answers("enroll") /\ ProgressFind(resp'.rq.user, resp'.rq.courseId) # {})
          => /\ progress' = progress
             /\ \/ resp'.status = 409
                \/ resp'.status = NotFoundError /\ resp'.rq.courseId \notin DOMAIN courses]_vars

\* Two enroll calls for one pair raced: the second create hit the unique index.
C3_Witness ==
  /\ resp.rq.op = "enroll"
  /\ resp.status = 409
  /\ resp.body.message = "Duplicate entry"
  /\ Cardinality(ProgressFind(resp.rq.user, resp.rq.courseId)) = 1

\* ------------------------------------------------- completion collections

NoRepeat(s) == \A a, b \in 1..Len(s) : s[a] = s[b] => a = b
Ids(s) == {s[k] : k \in 1..Len(s)}
Completion(p, resourceType) ==
  IF resourceType = "video" THEN p.completedVideos ELSE p.completedDocuments

\* C4: with calls one after another, no completion collection ever holds an
\* id twice, and a complete-resource call for an id its collection already holds
\* answers 200 and leaves every Progress record as it was.
C4_CompleteIdempotent ==
  [][/\ \A p \in progress' : NoRepeat(p.completedVideos) /\ NoRepeat(p.completedDocuments)
     /\ (/\ Answers("complete-resource")
         /\ \E p \in ProgressFind(resp'.rq.user, resp'.rq.courseId) :
              resp'.rq.resourceId \in Ids(Completion(p, resp'.rq.resourceType)))
          => (resp'.status = 200 /\ progress' = progress)]_vars

\* A repeated call was answered 200 without a save, and the id is held once.
C4_Witness ==
  /\ resp.rq.op = "complete-resource"
  /\ resp.status = 200
  /\ ~resp.wrote
  /\ \E p \in ProgressFind(resp.rq.user, resp.rq.courseId) :
       Cardinality({k \in 1..Len(Completion(p, resp.rq.resourceType)) :
                      Completion(p, resp.rq.resourceType)[k] = resp.rq.resourceId}) = 1

\* C5: after any interleaving of complete-resource calls for one pair, no id
\* is stored more than once in a completion collection, and the id of a call
\* answered 200 is stored.
C5_ConcurrentCompleteIsUnion ==
  /\ \A p \in progress : NoRepeat(p.completedVideos) /\ NoRepeat(p.completedDocuments)
  /\ (resp.rq.op = "complete-resource" /\ resp.status = 200)
       => \E p \in ProgressFind(resp.rq.user, resp.rq.courseId) :
            resp.rq.resourceId \in Ids(Completion(p, resp.rq.resourceType))

\* ------------------------------------------------------------ percentages

\* s is x/y rounded to the nearest integer, halves up: s - 1/2 <= x/y < s + 1/2.
IsRounded(s, x, y) == (2 * s - 1) * y <= 2 * x /\ 2 * x < (2 * s + 1) * y

\* The resources of a course, as (module index, resource index) pairs.
ResourceSlots(courseId) ==
  UNION {{<<m, r>> : r \in 1..Len(courses[courseId].modules[m].resources)} :
           m \in 1..Len(courses[courseId].modules)}

\* The completed entries of a Progress record, as (type, index) pairs.
CompletedSlots(p) ==
  ({"video"} \X (1..Len(p.completedVideos))) \cup ({"document"} \X (1..Len(p.completedDocuments)))

IsPercentOf(s, completed, total) ==
  IF total = 0 THEN s = 0 ELSE IsRounded(s, 100 * completed, total)

\* C6: every my-courses answer lists, for each Progress record of the caller,
\* the percent round(100 * (|completedVideos| + |completedDocuments|) / T),
\* T the number of resources over all modules of the course, and 0 when T = 0.
C6_CoursePercent ==
  [][(Answers("my-courses") /\ resp'.status = 200) =>
       LET mine == {p \in progress : p.userId = resp'.rq.user}
           listed == resp'.body.courses
       IN /\ Len(listed) = Cardinality(mine)
          /\ \A p \in mine : \E k \in 1..Len(listed) :
               /\ listed[k].courseId = p.courseId
               /\ IsPercentOf(listed[k].progress,
                              Cardinality(CompletedSlots(p)),
                              Cardinality(ResourceSlots(p.courseId)))]_vars

\* Modules of 3 and 2 resources, 2 completed videos and 1 completed document: 60;
\* and a course without resources: 0.
C6_Witness ==
  /\ resp.rq.op = "my-courses"
  /\ resp.status = 200
  /\ \E k \in 1..Len(resp.body.courses) :
       /\ resp.body.courses[k].courseId = "c1"
       /\ resp.body.courses[k].completedVideos = 2
       /\ resp.body.courses[k].completedDocuments = 1
       /\ resp.body.courses[k].progress = 60
  /\ Len(courses["c1"].modules) = 2
  /\ Len(courses["c1"].modules[1].resources) = 3
  /\ Len(courses["c1"].modules[2].resources) = 2

\* C7: every percent reported (my-courses, the path breakdown, my-paths) lies
\* between 0 and 100.
C7_PercentInRange ==
  resp.status = 200 =>
    /\ resp.rq.op = "my-courses" =>
         \A k \in 1..Len(resp.body.courses) : resp.body.courses[k].progress \in 0..100
    /\ resp.rq.op = "path-progress" =>
         \A k \in 1..Len(resp.body.courses) : resp.body.courses[k].progress \in 0..100
    /\ resp.rq.op = "my-paths" =>
         \A k \in 1..Len(resp.body.paths) : resp.body.paths[k].progress \in 0..100

\* The path's course list, as positions, with what each position contributes.
PathResourceSlots(pathId) ==
  UNION {{<<k, mr>> : mr \in ResourceSlots(paths[pathId].courses[k])} :
           k \in 1..Len(paths[pathId].courses)}

PathCompletedSlots(userId, pathId) ==
  UNION {{<<k, tj>> : tj \in UNION {CompletedSlots(p) :
                                      p \in ProgressFind(userId, paths[pathId].courses[k])}} :
           k \in 1..Len(paths[pathId].courses)}

\* C8: every my-paths answer gives, for each started path, round(100 * C / T):
\* T the resources of the path's courses, C the caller's completed resources in
\* those courses (none for a course without a Progress record), 0 when T = 0.
C8_PathPercent ==
  [][(Answers("my-paths") /\ resp'.status = 200) =>
       LET mine == {e \in pathEnrollments : e.userId = resp'.rq.user}
           listed == resp'.body.paths
       IN /\ Len(listed) = Cardinality(mine)
          /\ \A e \in mine : \E k \in 1..Len(listed) :
               /\ listed[k].pathId = e.pathId
               /\ IsPercentOf(listed[k].progress,
                              Cardinality(PathCompletedSlots(e.userId, e.pathId)),
                              Cardinality(PathResourceSlots(e.pathId)))]_vars

\* A path of two courses with resources, the caller enrolled in one of them
\* only, and a percent above 0.
C8_Witness ==
  /\ resp.rq.op = "my-paths"
  /\ resp.status = 200
  /\ Len(resp.body.paths) = 1
  /\ resp.body.paths[1].progress > 0
  /\ ProgressFind(resp.rq.user, "c1") # {}
  /\ ProgressFind(resp.rq.user, "c2") = {}
  /\ TotalResources(courses["c2"]) > 0

\* ------------------------------------------------------------ C1, C2: grading

\* The question indices (from 0) whose answer is defined and picks an option
\* of the question.
InRangeIndices(questions, answers) ==
  {i \in 0..(Len(questions) - 1) :
     /\ i + 1 <= Len(answers)
     /\ answers[i + 1] \in 0..(Len(questions[i + 1].options) - 1)}

\* Those whose picked option is marked correct.
CorrectIndices(questions, answers) ==
  {i \in InRangeIndices(questions, answers) :
     questions[i + 1].options[answers[i + 1] + 1].isCorrect}

\* The submissions of the Progress record of a request's caller and course.
StoredSubmissions(rq) ==
  UNION {{p.submissions[k] : k \in 1..Len(p.submissions)} :
           p \in ProgressFind(rq.user, rq.courseId)}

\* C1: a successful submit-mcq for an assignment of n questions returns
\* totalQuestions = n, correctCount = the number of indices whose answer is
\* defined and picks an option marked correct, and score = round(100 *
\* correctCount / n), halves up, 0 when n = 0; key [1,0,2,1] answered
\* [1,0,0,1] gives 75, 3, 4.
C1_GradeResult ==
  (resp.rq.op = "submit-mcq" /\ resp.status = 200) =>
    LET questions == assignments[resp.rq.assignmentId].mcqQuestions
        correct == Cardinality(CorrectIndices(questions, resp.rq.answers))
    IN /\ resp.body.totalQuestions = Len(questions)
       /\ resp.body.correctCount = correct
       /\ IsPercentOf(resp.body.score, correct, Len(questions))
       /\ (questions = SeedAssignments["a1"].mcqQuestions /\ resp.rq.answers = <<1, 0, 0, 1>>)
            => (resp.body.score = 75 /\ correct = 3 /\ Len(questions) = 4)

\* C1 without the rounding: the counts are the claim's, the score is within
\* one of 100 * correctCount / n, and the scenario gives 75, 3, 4.
C1_GradeCounts ==
  (resp.rq.op = "submit-mcq" /\ resp.status = 200) =>
    LET questions == assignments[resp.rq.assignmentId].mcqQuestions
        correct == Cardinality(CorrectIndices(questions, resp.rq.answers))
    IN /\ resp.body.totalQuestions = Len(questions)
       /\ resp.body.correctCount = correct
       /\ (resp.body.score - 1) * Len(questions) <= 100 * correct
       /\ 100 * correct <= (resp.body.score + 1) * Len(questions)
       /\ (questions = SeedAssignments["a1"].mcqQuestions /\ resp.rq.answers = <<1, 0, 0, 1>>)
            => (resp.body.score = 75 /\ correct = 3 /\ Len(questions) = 4)

\* The scenario of C1, answered.
C1_Scenario ==
  /\ resp.rq.op = "submit-mcq"
  /\ resp.status = 200
  /\ assignments[resp.rq.assignmentId].mcqQuestions = SeedAssignments["a1"].mcqQuestions
  /\ resp.rq.answers = <<1, 0, 0, 1>>
  /\ resp.body.score = 75

\* C2 as stated: whatever the answers list holds, a submit-mcq of an enrolled
\* learner for an existing MCQ assignment succeeds.
C2_AnyAnswersSucceed ==
  (/\ resp.rq.op = "submit-mcq"
   /\ ProgressFind(resp.rq.user, resp.rq.courseId) # {}
   /\ resp.rq.assignmentId \in DOMAIN assignments
   /\ assignments[resp.rq.assignmentId].type = "mcq")
  => resp.status = 200

\* C2 amended: a submit-mcq of an enrolled learner for an existing MCQ
\* assignment with a non-empty answers list succeeds whatever the list holds:
\* it is answered 200, the positions that are missing or out of range are not
\* counted correct, and the submission is stored with the answers as sent and
\* the score returned.
C2_NonEmptyAnswersSucceed ==
  (/\ resp.rq.op = "submit-mcq"
   /\ ProgressFind(resp.rq.user, resp.rq.courseId) # {}
   /\ resp.rq.assignmentId \in DOMAIN assignments
   /\ assignments[resp.rq.assignmentId].type = "mcq"
   /\ Len(resp.rq.answers) >= 1)
  => /\ resp.status = 200
     /\ resp.body.correctCount <=
          Cardinality(InRangeIndices(assignments[resp.rq.assignmentId].mcqQuestions,
                                     resp.rq.answers))
     /\ \E sub \in StoredSubmissions(resp.rq) :
          /\ sub.assignmentId = resp.rq.assignmentId
          /\ sub.mcqAnswers = resp.rq.answers
          /\ sub.score = resp.body.score

\* An answers list shorter than the question list, with an entry out of range,
\* graded and stored.
C2_Witness ==
  /\ resp.rq.op = "submit-mcq"
  /\ resp.status = 200
  /\ Len(resp.rq.answers) < Len(assignments[resp.rq.assignmentId].mcqQuestions)
  /\ \E j \in 1..Len(resp.rq.answers) :
       resp.rq.answers[j] \notin
         0..(Len(assignments[resp.rq.assignmentId].mcqQuestions[j].options) - 1)
  /\ resp.body.correctCount >= 1
  /\ \E sub \in StoredSubmissions(resp.rq) : sub.mcqAnswers = resp.rq.answers

\* ------------------------------------------------------ C9, C10: submissions

SubmitOps == {"submit-mcq", "submit-subjective"}

\* The type of assignment a submit operation takes.
TypeFor(op) == IF op = "submit-mcq" THEN "mcq" ELSE "subjective"

\* C9: a submit-mcq or submit-subjective answered 200 appends one submission,
\* for the assignment sent, to the caller's Progress record for the course and
\* leaves the submissions stored before, and every other record, as they were;
\* and in every state a record holds as many submissions as submit calls on it
\* were answered 200, whatever the interleaving.
C9_SubmitAppendsOne ==
  [][/\ (\E op \in SubmitOps : Answers(op) /\ resp'.status = 200) =>
          \E p \in progress, q \in progress' :
            /\ p.userId = resp'.rq.user /\ p.courseId = resp'.rq.courseId
            /\ q._id = p._id
            /\ Len(q.submissions) = Len(p.submissions) + 1
            /\ SubSeq(q.submissions, 1, Len(p.submissions)) = p.submissions
            /\ q.submissions[Len(q.submissions)].assignmentId = resp'.rq.assignmentId
            /\ [q EXCEPT !.submissions = p.submissions, !.__v = p.__v] = p
            /\ progress' \ {q} = progress \ {p}
     /\ \A q \in progress' :
          Len(q.submissions) =
            (IF q._id \in DOMAIN submitAcks' THEN submitAcks'[q._id] ELSE 0)]_vars

\* Two submissions for one assignment are stored, the one graded later saved
\* first: the two calls overlapped.
C9_Witness ==
  /\ resp.rq.op \in SubmitOps
  /\ resp.status = 200
  /\ \E p \in progress :
       /\ Len(p.submissions) = 2
       /\ AckCount(p._id) = 2
       /\ p.submissions[1].assignmentId = p.submissions[2].assignmentId
       /\ p.submissions[1]._id > p.submissions[2]._id

\* C10: a submit-mcq or submit-subjective that passes the request validation
\* (a non-empty answers list) is answered 404 and changes no Progress record
\* whenever the caller has no Progress record for the course, the assignment
\* does not exist, or its type is not the one the operation takes.
C10_SubmitNotFound ==
  [][\A op \in SubmitOps :
       (/\ Answers(op)
        /\ Len(resp'.rq.answers) >= 1
        /\ \/ \A p \in progress :
                ~(p.userId = resp'.rq.user /\ p.courseId = resp'.rq.courseId)
           \/ resp'.rq.assignmentId \notin DOMAIN assignments
           \/ assignments[resp'.rq.assignmentId].type # TypeFor(op))
       => (resp'.status = NotFoundError /\ progress' = progress)]_vars

\* A subjective assignment sent to submit-mcq by an enrolled learner: 404 and
\* nothing stored.
C10_Witness ==
  /\ resp.rq.op = "submit-mcq"
  /\ resp.status = NotFoundError
  /\ Len(resp.rq.answers) >= 1
  /\ resp.rq.assignmentId \in DOMAIN assignments
  /\ assignments[resp.rq.assignmentId].type = "subjective"
  /\ \E p \in progress :
       /\ p.userId = resp.rq.user /\ p.courseId = resp.rq.courseId
       /\ p.submissions = <<>>

\* ------------------------------------------------------- C11..C15: grading

IsSubjective(submission) ==
  /\ submission.assignmentId \in DOMAIN assignments
  /\ assignments[submission.assignmentId].type = "subjective"

\* C11: a submission to a subjective assignment is stored with its score
\* unset, and a step gives it a score only when the step is the save of a
\* grade call for that submission whose request carries that score.
C11_SubjectiveUnscored ==
  [][\A q \in progress' : \A n \in 1..Len(q.submissions) :
       LET s == q.submissions[n] IN
       IsSubjective(s) =>
         IF \E p \in progress : p._id = q._id /\ n <= Len(p.submissions)
           THEN \A p \in progress :
                  (/\ p._id = q._id
                   /\ n <= Len(p.submissions)
                   /\ p.submissions[n].score = Unset
                   /\ s.score # Unset)
                    => /\ Answers("grade")
                       /\ resp'.status = 200
                       /\ resp'.rq.progressId = q._id
                       /\ resp'.rq.submissionId = s._id
                       /\ resp'.rq.score = s.score
         ELSE s.score = Unset]_vars

\* A subjective submission made in the behaviour was graded with feedback and
\* no score: it has a grading time and still no score.
C11_Witness ==
  \E p \in progress : \E n \in 1..Len(p.submissions) :
    /\ IsSubjective(p.submissions[n])
    /\ p.submissions[n].submittedAt >= 5
    /\ p.submissions[n].gradedAt # Unset
    /\ p.submissions[n].feedback = "good"
    /\ p.submissions[n].score = Unset

\* The submission with this _id as the Progress collection st holds it.
StoredSubmission(st, progressId, submissionId) ==
  {p.submissions[n] : <<p, n>> \in
     {<<q, m>> \in st \X (1..MaxSubs) :
        /\ q._id = progressId
        /\ m <= Len(q.submissions)
        /\ q.submissions[m]._id = submissionId}}

\* C12: a grade call for a submission graded before, made after that grading
\* was saved (the document it read is the stored one) and carrying another
\* score and other feedback, is answered 200; the stored score and feedback are
\* then those of this call and gradedAt is the time of this call, later than
\* the time stored before.
C12_SecondGradeOverwrites ==
  [][\A i \in Slots :
       (/\ reqs[i].pc = "gradeSave"
        /\ reqs'[i] = Idle
        /\ reqs[i].doc \in progress
        /\ reqs[i].rq.score # Unset
        /\ reqs[i].rq.feedback # None
        /\ \A old \in StoredSubmission(progress, reqs[i].rq.progressId, reqs[i].rq.submissionId) :
             /\ old.gradedAt # Unset
             /\ old.score # reqs[i].rq.score
             /\ old.feedback # reqs[i].rq.feedback)
         => /\ resp'.status = 200
            /\ StoredSubmission(progress', reqs[i].rq.progressId, reqs[i].rq.submissionId) # {}
            /\ \A old \in StoredSubmission(progress, reqs[i].rq.progressId, reqs[i].rq.submissionId) :
                 \A new \in StoredSubmission(progress', reqs[i].rq.progressId, reqs[i].rq.submissionId) :
                   /\ new.score = reqs[i].rq.score
                   /\ new.feedback = reqs[i].rq.feedback
                   /\ new.gradedAt = reqs[i].gradedAt
                   /\ new.gradedAt > old.gradedAt
                   /\ new = [old EXCEPT !.score = reqs[i].rq.score,
                                        !.feedback = reqs[i].rq.feedback,
                                        !.gradedAt = reqs[i].gradedAt]]_vars

\* Submission 3 was graded at time 5 and then at time 6, one call after the
\* other: what is stored is the grade the second call answered with.
C12_Witness ==
  /\ \A i \in Slots : reqs[i] = Idle
  /\ clock = 7
  /\ resp.status = 200
  /\ resp.rq.op = "grade"
  /\ resp.rq.score = 90
  /\ resp.rq.feedback = "redo"
  /\ \A s \in StoredSubmission(progress, 1, 3) :
       /\ s.gradedAt = 6
       /\ s.score = 90
       /\ s.feedback = "redo"
       /\ s = resp.body.submission

\* C13 as stated: a grade call that overlapped another (the stored document
\* changed between its read and its save) and carries a score and feedback is
\* answered 200, and the stored score, feedback and gradedAt of the
\* submission are then those of this call, the one saved last.
C13_LastSaveWins ==
  [][\A i \in Slots :
       (/\ reqs[i].pc = "gradeSave"
        /\ reqs'[i] = Idle
        /\ reqs[i].doc \notin progress
        /\ reqs[i].rq.score # Unset
        /\ reqs[i].rq.feedback # None)
         => /\ resp'.status = 200
            /\ \A new \in StoredSubmission(progress', reqs[i].rq.progressId, reqs[i].rq.submissionId) :
                 /\ new.score = reqs[i].rq.score
                 /\ new.feedback = reqs[i].rq.feedback
                 /\ new.gradedAt = reqs[i].gradedAt]_vars

\* What overlapping grade calls do keep: each is answered 200, and the save
\* applied last decides gradedAt and every field its call changed from what
\* the call had read.
C13_LastSaveWinsChangedPaths ==
  [][\A i \in Slots :
       (/\ reqs[i].pc = "gradeSave"
        /\ reqs'[i] = Idle
        /\ reqs[i].doc \notin progress)
         => /\ resp'.status = 200
            /\ \A new \in StoredSubmission(progress', reqs[i].rq.progressId, reqs[i].rq.submissionId) :
                 LET read == reqs[i].doc.submissions[reqs[i].index] IN
                 /\ new.gradedAt = reqs[i].gradedAt
                 /\ (reqs[i].rq.score \notin {Unset, read.score}) => new.score = reqs[i].rq.score
                 /\ (reqs[i].rq.feedback \notin {None, read.feedback})
                      => new.feedback = reqs[i].rq.feedback]_vars

\* The Progress records a grade request names, and whether one of them holds
\* the submission it names.
NamedProgress(rq) == {p \in progress : p._id = rq.progressId}
NamedSubmissionExists(rq) == StoredSubmission(progress, rq.progressId, rq.submissionId) # {}
IsCoach(user) == user \in DOMAIN users /\ users[user].role = "coach"
\* The coach the course of p was created by (no step changes a course's coach).
OwnsCourseOf(user, p) == GradingCourses[p.courseId].coachId = user
CourseGone(rq) == \E p \in NamedProgress(rq) : p.courseId \notin DOMAIN courses

\* C14 as stated: a grade call by a coach who is not the owner of the course
\* of the Progress record is answered 403; a call naming a Progress record
\* that does not exist, or by the owner naming a submission that does not
\* exist, is answered 404; a rejected call changes nothing, and a step of a
\* grade call changes a Progress record only for the owner of its course.
C14_OwnerOnly ==
  [][Answers("grade") =>
       LET rq == resp'.rq IN
       /\ (IsCoach(rq.user) /\ \E p \in NamedProgress(rq) : ~OwnsCourseOf(rq.user, p))
            => resp'.status = ForbiddenError
       /\ (/\ IsCoach(rq.user)
           /\ \/ NamedProgress(rq) = {}
              \/ ~NamedSubmissionExists(rq) /\ \A p \in NamedProgress(rq) : OwnsCourseOf(rq.user, p))
            => resp'.status = NotFoundError
       /\ resp'.status # 200 => progress' = progress
       /\ progress' # progress =>
            (IsCoach(rq.user) /\ \A p \in NamedProgress(rq) : OwnsCourseOf(rq.user, p))]_vars

\* What grade does keep: the same, except that a call for a Progress record
\* whose course has been deleted is answered 500 in place of 403 or 404.
C14_OwnerOnlyOrGone ==
  [][Answers("grade") =>
       LET rq == resp'.rq IN
       /\ (IsCoach(rq.user) /\ \E p \in NamedProgress(rq) : ~OwnsCourseOf(rq.user, p))
            => \/ resp'.status = ForbiddenError
               \/ resp'.status = 500 /\ CourseGone(rq)
       /\ (/\ IsCoach(rq.user)
           /\ \/ NamedProgress(rq) = {}
              \/ ~NamedSubmissionExists(rq) /\ \A p \in NamedProgress(rq) : OwnsCourseOf(rq.user, p))
            => \/ resp'.status = NotFoundError
               \/ resp'.status = 500 /\ CourseGone(rq)
       /\ resp'.status # 200 => progress' = progress
       /\ progress' # progress =>
            (IsCoach(rq.user) /\ \A p \in NamedProgress(rq) : OwnsCourseOf(rq.user, p))]_vars

\* The other coach was turned away from a record that holds the submission.
C14_Witness ==
  /\ resp.rq.op = "grade"
  /\ resp.rq.user = OtherCoach
  /\ resp.status = ForbiddenError
  /\ NamedSubmissionExists(resp.rq)
  /\ \A s \in StoredSubmission(progress, resp.rq.progressId, resp.rq.submissionId) :
       s.gradedAt = Unset

\* A step of the grade call in slot i.
GradeStep(i) == reqs[i] # Idle /\ reqs[i].rq.op = "grade" /\ reqs'[i] # reqs[i]

\* p with the grade fields of its submission submissionId taken from q.
WithGradeOf(p, q, submissionId) ==
  [p EXCEPT !.submissions =
     [n \in DOMAIN p.submissions |->
        IF p.submissions[n]._id = submissionId /\ n <= Len(q.submissions)
          THEN [p.submissions[n] EXCEPT !.score = q.submissions[n].score,
                                        !.feedback = q.submissions[n].feedback,
                                        !.gradedAt = q.submissions[n].gradedAt]
        ELSE p.submissions[n]]]

\* C15: no step changes the _id, assignment reference, submission time or
\* answers of a stored submission, and a step of a grade call changes nothing
\* but the score, feedback and gradedAt of the submission it names in the
\* Progress record it names: every other submission, the completion
\* collections and every other Progress record stay as they are.
C15_GradeFrame ==
  [][/\ \A p \in progress : \A n \in 1..Len(p.submissions) :
          \E q \in progress' :
            /\ q._id = p._id
            /\ n <= Len(q.submissions)
            /\ q.submissions[n]._id = p.submissions[n]._id
            /\ q.submissions[n].assignmentId = p.submissions[n].assignmentId
            /\ q.submissions[n].submittedAt = p.submissions[n].submittedAt
            /\ q.submissions[n].mcqAnswers = p.submissions[n].mcqAnswers
            /\ q.submissions[n].subjectiveAnswers = p.submissions[n].subjectiveAnswers
     /\ \A i \in Slots : GradeStep(i) =>
          /\ Cardinality(progress') = Cardinality(progress)
          /\ \A p \in progress :
               IF p._id = reqs[i].rq.progressId
                 THEN \E q \in progress' : q = WithGradeOf(p, q, reqs[i].rq.submissionId)
               ELSE p \in progress']_vars

\* A grade was saved on submission 6 while the record held a second
\* submission and another record held one: only submission 6 is graded.
C15_Witness ==
  /\ resp.rq.op = "grade"
  /\ resp.status = 200
  /\ resp.wrote
  /\ SubmittedS2 \in progress
  /\ \E p \in progress :
       /\ p._id = 1
       /\ Len(p.submissions) = 2
       /\ p.submissions[1]._id = 6
       /\ p.submissions[1].gradedAt # Unset
       /\ p.submissions[2].gradedAt = Unset
       /\ p.submissions[2].feedback = None

\* ------------------------------------------------- C16, C17: starting a path

\* At most one PathEnrollment per (learner, path).
UniquePathPair ==
  \A e, f \in pathEnrollments : (e.userId = f.userId /\ e.pathId = f.pathId) => e = f

C17_StartPathCreatesOne ==
  [][/\ (Answers("start-path") /\ resp'.status = 201)
          => /\ pathEnrollments \subseteq pathEnrollments'
             /\ Cardinality(pathEnrollments') = Cardinality(pathEnrollments) + 1
             /\ \A e \in pathEnrollments' \ pathEnrollments :
                  /\ e.userId = resp'.rq.user
                  /\ e.pathId = resp'.rq.pathId
                  /\ e._id = resp'.body.enrollmentId
     /\ (\/ Answers("start-path")
         \/ \E i \in Slots : /\ reqs[i] # Idle
                              /\ reqs[i].rq.op = "start-path"
                              /\ reqs'[i] # reqs[i])
          => progress' = progress]_vars

\* A learner enrolled in no course started p1: the enrollment exists and the
\* learner still has no Progress record, while the other learner has one.
C17_Witness ==
  /\ resp.rq.op = "start-path"
  /\ resp.status = 201
  /\ PathEnrollmentFind(resp.rq.user, "p1") # {}
  /\ \A p \in progress : p.userId # resp.rq.user
  /\ progress # {}

\* ---------------------------------------------------------- C18: completedAt

\* C18: completedAt of every Progress record is unset in every state that
\* enroll, complete-resource, submit and grade calls lead to, also when every
\* resource of the course is completed.
C18_CompletedAtNeverSet ==
  \A p \in progress : p.completedAt = Unset

\* A record that my-courses reports at 100 percent, with a graded submission,
\* and completedAt unset.
C18_Witness ==
  \E p \in progress :
    /\ p.courseId \in DOMAIN courses
    /\ CompletedResources(p) = TotalResources(courses[p.courseId])
    /\ CourseWithProgress(p).progress = 100
    /\ \E n \in 1..Len(p.submissions) : p.submissions[n].gradedAt # Unset
    /\ CourseWithProgress(p).completedAt = Unset

\* ------------------------------------------------- C19: the caller's records

LearnerOps == {"enroll", "complete-resource", "submit-mcq", "submit-subjective", "start-path"}

\* A step of a learner operation that learner is the caller of.
LearnerStep(learner) ==
  \E i \in Slots :
    /\ reqs[i] # Idle
    /\ reqs[i].rq.op \in LearnerOps
    /\ reqs[i].rq.user = learner
    /\ reqs'[i] # reqs[i]

\* C19: a step of enroll, complete-resource, submit-mcq, submit-subjective or
\* start-path called by a learner creates, changes and removes no Progress
\* record and no PathEnrollment of anybody else.
C19_OwnRecordsOnly ==
  [][\A learner \in Students :
       LearnerStep(learner) =>
         /\ \A p \in progress : p.userId # learner => p \in progress'
         /\ \A p \in progress' : p.userId # learner => p \in progress
         /\ \A e \in pathEnrollments : e.userId # learner => e \in pathEnrollments'
         /\ \A e \in pathEnrollments' : e.userId # learner => e \in pathEnrollments]_vars

\* A learner's call wrote to the store while the other learner had a
\* Progress record and a PathEnrollment.
C19_Witness ==
  /\ resp.rq.op \in LearnerOps \ {"enroll", "start-path"}
  /\ resp.status = 200
  /\ resp.wrote
  /\ \E p \in progress : p.userId = resp.rq.user
  /\ \E p \in progress : p.userId # resp.rq.user
  /\ \E e \in pathEnrollments : e.userId # resp.rq.user

\* ----------------------------------------------------------- C20: role gating

StudentOnlyOps ==
  {"enroll", "my-courses", "complete-resource", "submit-mcq", "submit-subjective",
   "start-path", "my-paths", "path-progress"}
CoachOnlyOps ==
  {"create-course", "update-course", "delete-course", "create-assignment",
   "update-assignment", "delete-assignment", "create-path", "update-path", "delete-path",
   "list-submissions", "grade"}

\* The role the operation of rq is open to.
RoleFor(rq) == IF rq.op \in StudentOnlyOps THEN "student" ELSE "coach"

\* What the guard in front of the operation of rq must answer: 0 to let it run.
Gate(rq) ==
  IF rq.user \notin DOMAIN users THEN UnauthorizedError
  ELSE IF users[rq.user].role # RoleFor(rq) THEN ForbiddenError
  ELSE 0

StoreUnchanged ==
  UNCHANGED <<users, courses, assignments, paths, progress, pathEnrollments>>

ChangeOps ==
  {"update-course", "delete-course", "update-assignment", "delete-assignment",
   "update-path", "delete-path"}

\* Whether the record rq targets is stored.
TargetExists(rq) ==
  CASE rq.op \in {"update-course", "delete-course"} -> rq.courseId \in DOMAIN courses
    [] rq.op \in {"update-assignment", "delete-assignment"} ->
         rq.assignmentId \in DOMAIN assignments
    [] OTHER -> rq.pathId \in DOMAIN paths

\* The owners of the record rq targets: course.coachId, the coachId of the
\* assignment's course, path.createdBy. Empty when the assignment's course is
\* not stored.
TargetOwners(rq) ==
  CASE rq.op \in {"update-course", "delete-course"} -> {courses[rq.courseId].coachId}
    [] rq.op \in {"update-assignment", "delete-assignment"} ->
         {courses[c].coachId : c \in {assignments[rq.assignmentId].courseId} \cap DOMAIN courses}
    [] OTHER -> {paths[rq.pathId].createdBy}

QuestionsOfType(a) ==
  IF a.type = "mcq" THEN a.mcqQuestions ELSE a.subjectiveQuestions

\* C22: in every reachable state every stored Assignment of type mcq has a
\* non-empty list of MCQ questions and every stored Assignment of type
\* subjective has a non-empty list of subjective questions.
C22_QuestionsMatchType ==
  \A a \in DOMAIN assignments : QuestionsOfType(assignments[a]) # <<>>

\* What the create operation keeps: an assignment a step adds to the store
\* has a non-empty question list of its type.
C22_CreatedQuestionsMatchType ==
  [][\A a \in DOMAIN assignments' \ DOMAIN assignments :
        QuestionsOfType(assignments'[a]) # <<>>]_vars

\* ------------------------------------------- C23: what a grade call stores

\* The grade step of slot i that answers 200.
GradeSaved(i) ==
  /\ reqs[i].pc = "gradeSave"
  /\ reqs'[i] = Idle
  /\ resp'.status = 200

\* C23 as stated: after a successful grade call the stored score and feedback
\* of the targeted submission are exactly the score and feedback of the call,
\* unset where the call carries none.
C23_GradeReplaces ==
  [][\A i \in Slots : GradeSaved(i) =>
       \A new \in StoredSubmission(progress', reqs[i].rq.progressId, reqs[i].rq.submissionId) :
         /\ new.score = reqs[i].rq.score
         /\ new.feedback = reqs[i].rq.feedback]_vars

\* C23 as the code has it: after a successful grade call, made while no other
\* grade call is being handled, the stored score is the score of the call if
\* it carries one and the score stored before if it does not, the same for
\* feedback, and gradedAt is the time of the call.
C23_GradeSetsCarried ==
  [][\A i \in Slots : GradeSaved(i) =>
       \A old \in StoredSubmission(progress, reqs[i].rq.progressId, reqs[i].rq.submissionId),
          new \in StoredSubmission(progress', reqs[i].rq.progressId, reqs[i].rq.submissionId) :
         /\ new.score = IF reqs[i].rq.score # Unset THEN reqs[i].rq.score ELSE old.score
         /\ new.feedback = IF reqs[i].rq.feedback # None THEN reqs[i].rq.feedback
                           ELSE old.feedback
         /\ new.gradedAt = reqs[i].gradedAt
         /\ new.gradedAt > old.gradedAt
         /\ [new EXCEPT !.score = old.score, !.feedback = old.feedback,
                        !.gradedAt = old.gradedAt] = old]_vars

\* A grade call that carried feedback and no score was answered 200 for the
\* submission auto-graded 75, which keeps that score next to the feedback.
C23_Witness ==
  /\ resp.rq.op = "grade"
  /\ resp.status = 200
  /\ resp.rq.score = Unset
  /\ resp.rq.feedback = "redo"
  /\ \E sub \in StoredSubmission(progress, resp.rq.progressId, resp.rq.submissionId) :
       /\ sub.score = 75
       /\ sub.feedback = "redo"
       /\ sub.gradedAt # Unset

\* ------------------------------------------------- C24: the hidden answer key

\* The assignments that differ from doc only in which options are marked
\* correct.
Rekeyed(doc) ==
  {[doc EXCEPT !.mcqQuestions =
      [q \in DOMAIN doc.mcqQuestions |->
         [doc.mcqQuestions[q] EXCEPT !.options =
            [j \in DOMAIN doc.mcqQuestions[q].options |->
               [text |-> doc.mcqQuestions[q].options[j].text, isCorrect |-> key[q][j]]]]]] :
     key \in [DOMAIN doc.mcqQuestions -> [1..3 -> BOOLEAN]]}

\* No option of the sent assignment carries a flag.
NoFlag(sent) ==
  \A q \in DOMAIN sent.mcqQuestions : \A j \in DOMAIN sent.mcqQuestions[q].options :
    DOMAIN sent.mcqQuestions[q].options[j] = {"text"}

\* What GET /:id and GET /course/:courseId answer a caller of this role from
\* a store holding the documents docs.
Sent(op, role, docs, rq) ==
  IF op = "get-assignment" THEN [assignment |-> AssignmentView(role, docs[rq.assignmentId])]
  ELSE [assignments |->
          [a \in {b \in DOMAIN docs : docs[b].courseId = rq.courseId} |->
             AssignmentView(role, docs[a])]]

\* The stores that differ from the stored assignments only in which options
\* of a1 are marked correct.
RekeyedStores == {[assignments EXCEPT !["a1"] = twin] : twin \in Rekeyed(assignments["a1"])}

\* C24: what either GET route answers a learner with status 200 is what it
\* would answer from every store that differs only in which options are
\* marked correct, and no option in it carries isCorrect; what it answers a
\* coach is the stored documents, flags included.
C24_AnswerKeyHidden ==
  [][\A op \in {"get-assignment", "list-assignments"} :
       (resp' # resp /\ resp'.rq.op = op /\ resp'.status = 200) =>
         LET rq == resp'.rq
             role == users[rq.user].role
         IN /\ role = "student" =>
                 /\ \A docs \in RekeyedStores : resp'.body = Sent(op, "student", docs, rq)
                 /\ op = "get-assignment" => NoFlag(resp'.body.assignment)
                 /\ op = "list-assignments" =>
                      \A a \in DOMAIN resp'.body.assignments : NoFlag(resp'.body.assignments[a])
            /\ role = "coach" =>
                 /\ op = "get-assignment" => resp'.body.assignment = assignments[rq.assignmentId]
                 /\ op = "list-assignments" =>
                      \A a \in DOMAIN resp'.body.assignments :
                        resp'.body.assignments[a] = assignments[a]]_vars

\* The learner s1 was sent the MCQ assignment a1, whose second question has
\* its third option marked correct.
C24_Witness ==
  /\ resp.rq.op = "get-assignment"
  /\ resp.rq.user = "s1"
  /\ resp.rq.assignmentId = "a1"
  /\ resp.status = 200
  /\ assignments["a1"].mcqQuestions[2].options[3].isCorrect
  /\ Len(resp.body.assignment.mcqQuestions) = 2

\* -------------------------------------- C25: the enrollments of a deleted path

\* A delete of this path is being handled.
DeletingPath(pathId) ==
  \E i \in Slots : reqs[i].pc = "pathDelete" /\ reqs[i].rq.pathId = pathId

\* C25: once a deletePath call has completed, no PathEnrollment referencing
\* the path exists: every stored enrollment is of a stored path, or of a path
\* whose delete is still being handled.
C25_NoEnrollmentOfDeletedPath ==
  \A e \in pathEnrollments : e.pathId \in DOMAIN paths \/ DeletingPath(e.pathId)

\* What deletePath does do: the step that runs its deleteMany leaves no
\* enrollment of the path stored.
C25_DeleteManyRemovesStored ==
  [][\A i \in Slots :
       (/\ reqs[i].pc = "pathDelete"
        /\ "enrollments" \in reqs[i].todo
        /\ \/ reqs'[i] = Idle /\ reqs[i].todo = {"enrollments"}
           \/ reqs'[i].pc = "pathDelete" /\ reqs'[i].todo = {"path"}) =>
         \A e \in pathEnrollments' : e.pathId # reqs[i].rq.pathId]_vars

\* ------------------------------------------------ C26: the courses of a path

\* Every course id of the path is of a stored course of the path's creator.
CoursesOwned(store, p) ==
  \A c \in IdSet(store[p].courses) :
    c \in DOMAIN courses /\ courses[c].coachId = store[p].createdBy

\* Whether the request names a course that is not stored or is another
\* coach's.
NamesForeignCourse(rq) ==
  \E c \in IdSet(rq.courseIds) : c \notin DOMAIN courses \/ courses[c].coachId # rq.user

\* C26: after every createPath and updatePath every course id of every path
\* is of a stored course owned by the coach who created the path, and a
\* createPath or updatePath that names a course which is not stored or is
\* another coach's is rejected and leaves the paths unchanged.
C26_PathCoursesOwned ==
  [][/\ \A p \in DOMAIN paths' : CoursesOwned(paths', p)
     /\ \A op \in {"create-path", "update-path"} :
          (Answers(op) /\ NamesForeignCourse(resp'.rq)) =>
            (resp'.status \in {400, ForbiddenError} /\ paths' = paths)]_vars

\* What holds of createPath, and of updatePath for stored courses: a path a
\* step adds has only stored courses of its creator, a createPath naming a
\* course that is not stored is answered 400 and one naming another coach's
\* course 403, an updatePath naming another coach's stored course is answered
\* 403, and none of these changes the paths.
C26_CreatedPathCoursesOwned ==
  [][/\ \A p \in DOMAIN paths' \ DOMAIN paths : CoursesOwned(paths', p)
     /\ (Answers("create-path") /\ NamesForeignCourse(resp'.rq)) =>
          (resp'.status \in {400, ForbiddenError} /\ paths' = paths)
     /\ (/\ Answers("update-path")
         /\ \E c \in IdSet(resp'.rq.courseIds) \cap DOMAIN courses :
              courses[c].coachId # resp'.rq.user) =>
          (resp'.status = ForbiddenError /\ paths' = paths)]_vars

\* ------------------------------------------------- C27: set-role, first time

\* The step answers a set-role call of an authenticated user that asks for
\* one of the two roles.
SetRoleAnswered ==
  /\ resp' # resp
  /\ resp'.rq.op = "set-role"
  /\ resp'.rq.user # Anonymous
  /\ resp'.rq.role \in {"student", "coach"}

\* C27: the first set-role call of a user created by first-time
\* authentication (the call whose authenticate creates the user) with role
\* student or coach is answered 200 and stores that role; every later
\* set-role call of the user is answered 403 'Role already set' and leaves the
\* stored role unchanged.
C27_SetRoleFirstTimeOnly ==
  [][SetRoleAnswered =>
       LET rq == resp'.rq IN
       IF rq.user \notin DOMAIN users
         THEN /\ rq.user \in DOMAIN users'
              /\ resp'.status = 200
              /\ users'[rq.user].role = rq.role
       ELSE /\ resp'.status = ForbiddenError
            /\ resp'.body.message = "Role already set"
            /\ users' = users]_vars

\* What set-role does: every call of an authenticated user asking for one of
\* the two roles, the first included, is answered 403 'Role already set'; the
\* stored role is the one the token carried when authenticate created the
\* user, student if it carried none, and no step changes it.
C27_RoleSetAtCreation ==
  [][/\ SetRoleAnswered =>
          /\ resp'.status = ForbiddenError
          /\ resp'.body.message = "Role already set"
          /\ \A u \in DOMAIN users : users'[u] = users[u]
          /\ resp'.rq.user \notin DOMAIN users =>
               users'[resp'.rq.user].role = CreatedRole(resp'.rq.tokenRole)
     /\ \A i \in Slots : reqs'[i].pc # "setRoleUpdate"]_vars

\* ----------------------------------- C28: the course of a submission

\* The assignments the submissions of a Progress record reference.
SubmittedTo(p) == {p.submissions[n].assignmentId : n \in 1..Len(p.submissions)}

\* C28: in every reachable state the assignment a submission in the Progress
\* record of (learner, course) references is an assignment of that course.
C28_SubmissionOfCourse ==
  \A p \in progress : \A a \in SubmittedTo(p) :
    a \in DOMAIN assignments /\ assignments[a].courseId = p.courseId

\* What the submit operations do keep while no assignment is deleted: every
\* submission references a stored assignment.
C28_SubmissionOfStoredAssignment ==
  \A p \in progress : SubmittedTo(p) \subseteq DOMAIN assignments

\* ------------------------------------- C29: the course of a Progress record

\* The Progress records of the learner whose course is not stored.
Orphaned(learner) ==
  {p \in progress : p.userId = learner /\ p.courseId \notin DOMAIN courses}

\* C29: in every reachable state every Progress record references a stored
\* course, and my-courses of a learner is answered 200.
C29_ProgressCourseExists ==
  /\ \A p \in progress : p.courseId \in DOMAIN courses
  /\ (resp.rq.op = "my-courses" /\ StudentOnly(resp.rq.user) = 0) => resp.status = 200

\* What my-courses does: it is answered 200 for a learner all of whose
\* Progress records reference stored courses, and 500 for a learner with a
\* record of a deleted course.
C29_MyCoursesUnlessCourseGone ==
  [][(resp' # resp /\ resp'.rq.op = "my-courses" /\ StudentOnly(resp'.rq.user) = 0) =>
       resp'.status = IF Orphaned(resp'.rq.user) = {} THEN 200 ELSE 500]_vars

\* ------------------------------------------ C30: a record only accumulates

\* The _ids of the submissions of a Progress record.
SubmissionIds(p) == {p.submissions[n]._id : n \in 1..Len(p.submissions)}

\* q holds everything p holds: the completed ids, and the submissions at
\* their positions, which may have been graded.
Accumulates(p, q) ==
  /\ Ids(p.completedVideos) \subseteq Ids(q.completedVideos)
  /\ Ids(p.completedDocuments) \subseteq Ids(q.completedDocuments)
  /\ Len(p.completedVideos) <= Len(q.completedVideos)
  /\ Len(p.completedDocuments) <= Len(q.completedDocuments)
  /\ Len(p.submissions) <= Len(q.submissions)
  /\ \A n \in 1..Len(p.submissions) :
       [q.submissions[n] EXCEPT !.score = p.submissions[n].score,
                                !.feedback = p.submissions[n].feedback,
                                !.gradedAt = p.submissions[n].gradedAt] = p.submissions[n]

\* C30: across every step, every stored Progress record stays stored, its
\* completedVideos and completedDocuments lose no id and its submission list
\* loses no entry.
C30_ProgressAccumulates ==
  [][\A p \in progress : \E q \in progress' : q._id = p._id /\ Accumulates(p, q)]_vars

\* A record that holds a completed video and a submission a coach graded.
C30_Witness ==
  \E p \in progress :
    /\ Len(p.completedVideos) >= 1
    /\ Len(p.submissions) >= 1
    /\ p.submissions[1].gradedAt # Unset
    /\ p.submissions[1].feedback = "good"

====
